---- MODULE Spec2Model ----
(***************************************************************************)
(* RealEvaluationEngine (src/src/swe-bench/real-evaluation-engine.ts):     *)
(* evaluate() fans a list of patch submissions out in consecutive batches  *)
(* of maxParallel concurrent evaluateSinglePatch() calls.  One action is   *)
(* one await-to-await segment of the code; an external command or a file   *)
(* system call ends with an outcome chosen by the environment.             *)
(***************************************************************************)
EXTENDS Integers, Sequences, FiniteSets, TLC

\* ------------------------------------------------------------------ bounds
\* Longest patch list handed to evaluate().
MaxPatches == 2

\* config.parallel_instances values tried by the constructor (0 = unset/falsy).
ParallelConfigs == {0, 1, 2}

\* `config.parallel_instances || 2`
DefaultParallel == 2

\* testPatterns.length in runTestsDirectly
NumPatterns == 8

\* ['jest', 'mocha', 'vitest', 'tap'].length in runTestsDirectly
NumRunners == 4

\* ------------------------------------------------------------------ inputs
\* The dataset file typescript-instances-all.json: instance "a" carries a
\* test_patch, instance "b" does not, no other id is in the file.
Dataset ==
  [a |-> [instance_id |-> "a", test_patch |-> "diff --git t"],
   b |-> [instance_id |-> "b", test_patch |-> ""]]

\* Patch submissions: both dataset instances, an id the dataset lacks and
\* an empty id.
PatchSamples ==
  { [instance_id |-> "a", model_patch |-> "diff --git m"],
    [instance_id |-> "b", model_patch |-> "diff --git m"],
    [instance_id |-> "c", model_patch |-> "diff --git m"],
    [instance_id |-> "",  model_patch |-> "diff --git m"] }

\* Submissions with an empty and with a whitespace-only model patch.
BlankPatchSamples ==
  { [instance_id |-> "a", model_patch |-> "   "],
    [instance_id |-> "b", model_patch |-> ""] }

RECURSIVE SeqsUpTo(_, _)
SeqsUpTo(S, n) ==
  IF n = 0 THEN {<<>>}
  ELSE LET shorter == SeqsUpTo(S, n - 1)
       IN shorter \cup {Append(s, x) : s \in {t \in shorter : Len(t) = n - 1}, x \in S}

\* The arguments of evaluate(): every list of up to MaxPatches of the first
\* samples, and each blank-patch submission on its own.
PatchLists ==
  SeqsUpTo(PatchSamples, MaxPatches) \cup {<<p>> : p \in BlankPatchSamples}

\* String.prototype.trim() on the patch texts above.
trim(s) == IF s \in {"", " ", "   "} THEN "" ELSE s

\* Outcomes of runCommand: resolve(stdout), or one of its three rejections.
CommandFailures == {"nonzero", "timeout", "spawn"}

\* The Error messages runCommand rejects with.
CommandError(kind, description) ==
  "Command \"" \o description \o "\" " \o
  (CASE kind = "timeout" -> "timed out after 300000ms"
     [] kind = "nonzero" -> "failed with code 1: stderr"
     [] kind = "spawn"   -> "failed to start: spawn ENOENT")

\* The message of a rejected fs/promises call.
FsError == "EACCES: permission denied"

\* What the checkout holds at package.json: no file, a file that is not
\* JSON, a manifest without scripts.test, a manifest with scripts.test.
PkgKinds == {"none", "invalid", "noscript", "script"}

\* ------------------------------------------------------------------ test output
\* parseInt(undefined), and every comparison with it is false.
NaN == 0 - 1

\* The largest count a test summary below reports.
MaxCount == 2

Counts == 0..MaxCount

\* Summary lines as the four frameworks of the code's comments print them
\* ("Tests: 2 failed, 8 passed, 10 total", "passing: 8, failing: 2",
\* "# tests 10\n# pass 8\n# fail 2", "10 tests, 8 passed, 2 failed").
JestText(failed, passed, total) ==
  "Tests: " \o ToString(failed) \o " failed, " \o ToString(passed)
    \o " passed, " \o ToString(total) \o " total"

MochaText(passing, failing) ==
  "passing: " \o ToString(passing) \o ", failing: " \o ToString(failing)

TapText(tests, pass, fail) ==
  "# tests " \o ToString(tests) \o "\n# pass " \o ToString(pass)
    \o "\n# fail " \o ToString(fail)

GenericText(tests, passed, failed) ==
  ToString(tests) \o " tests, " \o ToString(passed) \o " passed, "
    \o ToString(failed) \o " failed"

\* An output with a generic summary line followed by a TAP summary.
MixedText(a, b, c) == GenericText(a, b, c) \o "\n" \o TapText(c, a, b)

\* What the regular expressions of parseTestOutput see in each output text:
\* which of the four count patterns is the first in the order of the array
\* to match (0 = none) with its captured groups, and how many matches the
\* pass scan /✓|√|pass|PASS/g and the fail scan /✗|×|fail|FAIL|error|ERROR/g
\* find ("passed", "passing" and "pass" hold "pass" once; "failed", "failing"
\* and "fail" hold "fail" once).
Scans ==
  {[text |-> JestText(a, b, c), pattern |-> 1, m |-> <<a, b, c>>,
    passMatches |-> 1, failMatches |-> 1] : a \in Counts, b \in Counts, c \in Counts}
  \cup
  {[text |-> MochaText(a, b), pattern |-> 2, m |-> <<a, b>>,
    passMatches |-> 1, failMatches |-> 1] : a \in Counts, b \in Counts}
  \cup
  {[text |-> TapText(a, b, c), pattern |-> 3, m |-> <<a, b, c>>,
    passMatches |-> 1, failMatches |-> 1] : a \in Counts, b \in Counts, c \in Counts}
  \cup
  {[text |-> GenericText(a, b, c), pattern |-> 4, m |-> <<a, b, c>>,
    passMatches |-> 1, failMatches |-> 1] : a \in Counts, b \in Counts, c \in Counts}
  \cup
  {[text |-> MixedText(a, b, c), pattern |-> 3, m |-> <<c, a, b>>,
    passMatches |-> 2, failMatches |-> 2] : a \in Counts, b \in Counts, c \in Counts}
  \cup
  {[text |-> "PASS src/a.test.ts", pattern |-> 0, m |-> << >>,
    passMatches |-> 1, failMatches |-> 0],
   [text |-> "pass adds\npass subtracts\nFAIL divides", pattern |-> 0, m |-> << >>,
    passMatches |-> 2, failMatches |-> 1],
   [text |-> "", pattern |-> 0, m |-> << >>,
    passMatches |-> 0, failMatches |-> 0]}

OutputTexts == {s.text : s \in Scans}

ScanOf == [text \in OutputTexts |-> CHOOSE s \in Scans : s.text = text]

Scan(text) ==
  IF text \in OutputTexts THEN ScanOf[text]
  ELSE [text |-> text, pattern |-> 0, m |-> << >>,
        passMatches |-> 0, failMatches |-> 0]

\* stdout texts a test command that exits with code 0 may have printed.
SampleOutputs ==
  { "# tests 2\n# pass 2\n# fail 0",
    "Tests: 1 failed, 1 passed, 2 total",
    "" }

\* The needles of the dispatch in parseTestOutput ("failed.*passed.*total",
\* "passing.*failing", "tests.*pass.*fail") that are literal substrings of the
\* source text of each of the four patterns: each needle holds the characters
\* ".*", which no source holds.
NeedlesIn == [pattern \in 1..4 |-> {}]

\* pattern.source.includes(needle)
SourceIncludes(pattern, needle) == needle \in NeedlesIn[pattern]

\* parseInt(match[i])
Group(m, i) == IF i <= Len(m) THEN m[i] ELSE NaN

parseTestOutput(output) ==
  LET s == Scan(output)
      matched ==
        IF s.pattern = 0
          THEN [testsRun |-> 0, testsPassed |-> 0, testsFailed |-> 0]
        ELSE IF SourceIncludes(s.pattern, "failed.*passed.*total")
          THEN [testsRun |-> Group(s.m, 3), testsPassed |-> Group(s.m, 2),
                testsFailed |-> Group(s.m, 1)]
        ELSE IF SourceIncludes(s.pattern, "passing.*failing")
          THEN [testsRun |-> Group(s.m, 1) + Group(s.m, 2),
                testsPassed |-> Group(s.m, 1), testsFailed |-> Group(s.m, 2)]
        ELSE [testsRun |-> Group(s.m, 1), testsPassed |-> Group(s.m, 2),
              testsFailed |-> Group(s.m, 3)]
  IN IF matched.testsRun = 0
       THEN [testsRun |-> s.passMatches + s.failMatches,
             testsPassed |-> s.passMatches,
             testsFailed |-> s.failMatches]
       ELSE matched

\* ------------------------------------------------------------------ state
VARIABLES
  datasetOk,     \* the dataset file can be read and parsed as JSON
  datasetFile,   \* the instance ids of the records the dataset file holds
  maxParallel,   \* this.maxParallel
  instances,     \* this.instances: Map instance_id -> SWEBenchInstance
  patches,       \* the argument of the evaluate() call
  evalPc,        \* evaluate(): "idle", "loading", "awaiting", "returned", "threw"
  i,             \* the loop index of evaluate()
  results,       \* the local results array of evaluate()
  returned,      \* the EvaluationResults evaluate() resolved with
  pc,            \* per patch index: where its evaluateSinglePatch() call stands
  val,           \* per patch index: the result or rejection reason of the call
  loc,           \* per patch index: the locals of the call and of its callees
  made,          \* per patch index: the call created its working directory
  cleaned,       \* per patch index: the finally block ran fs.rm on the directory
  spawned,       \* per patch index: the functions the call spawned commands in
  completed,     \* patch indexes of the latest batch in the order they settled
  dirs,          \* instance ids whose directory repos/<instance_id> exists
  activeRepos,   \* RepositoryManager.activeRepos: the Map's entries
                 \* [id, path] in insertion order
  disk,          \* the checkout directories that exist under workDir
  patchFile,     \* the checkouts that hold a swe-bench.patch file
  call,          \* per caller: where its RepositoryManager call stands
  fnIn,          \* a function of the engine and the argument it is called with
  fnOut,         \* what that call returned
  child,         \* runCommand: the spawned process
  code,          \* runCommand: how the process ended, the argument of 'close'
  stdout,        \* runCommand: the local stdout
  stderr,        \* runCommand: the local stderr
  timeout,       \* runCommand: the timer of setTimeout
  promise,       \* runCommand: the promise it returned
  settled,       \* runCommand: the callbacks that called resolve or reject
  closing,       \* runCommand: where the async 'close' handler stands
  logFile,       \* the records appended to the evaluation's log file
  projects,      \* OrchestrationManager.projects: the Map's values in
                 \* insertion order, a project's id being its position
  stopping,      \* where the OrchestrationManager's stop() call stands
  loop           \* OrchestrationManager.runDevelopmentLoop of one project:
                 \* the project, the loop's locals and where it stands

\* The state of a RepositoryManager, which no RealEvaluationEngine uses
manager == <<activeRepos, disk, patchFile, call>>

\* The state of a RealEvaluationEngine and of its evaluate() call
engine == <<datasetOk, maxParallel, instances, patches, evalPc, i, results,
            returned, pc, val, loc, made, cleaned, spawned, completed, dirs>>

\* A call of one of the engine's functions that use no state
functions == <<fnIn, fnOut>>

\* One runCommand() call
runCommand == <<child, code, stdout, stderr, timeout, promise, settled, closing,
             logFile>>

\* The state of an OrchestrationManager
orchestration == <<projects, stopping>>

\* One runDevelopmentLoop() call and its project
development == <<loop>>

\* What the actions of the engine, and those of the manager, leave alone
outsideEngine ==
  <<manager, functions, runCommand, datasetFile, orchestration,
    development>>

outsideManager ==
  <<engine, functions, runCommand, datasetFile, orchestration,
    development>>

\* What a call of a function, and a runCommand call, leave alone
outsideFunctions ==
  <<engine, manager, runCommand, datasetFile, orchestration,
    development>>

outsideCommand ==
  <<engine, manager, functions, datasetFile, orchestration,
    development>>

\* What the actions of the OrchestrationManager leave alone
outsideOrchestration ==
  <<engine, manager, functions, runCommand, datasetFile, development>>

\* What the development loop leaves alone
outsideDevelopment ==
  <<engine, manager, functions, runCommand, datasetFile, orchestration>>

vars ==
  <<engine, manager, functions, runCommand, datasetFile, orchestration,
    development>>

\* The clients that call into one RepositoryManager at the same time
Callers == {1, 2}

\* A caller that has no call in progress.  Of a call in progress: op, its
\* arguments id, path and patch, the await it is suspended at (pc), its
\* locals framework and out, its Map iterator (cursor) and what it returned
\* or threw (ret); and, kept to state properties: the commands it has run,
\* whether it wrote the patch file, what package.json held (pkg), which
\* branch computed the returned counts (parsed), and the paths tracked when
\* cleanupAll was called for which cleanup was not called since (pending).
IdleCall ==
  [op |-> "", pc |-> "idle", id |-> "", path |-> "", patch |-> "",
   cursor |-> 0, pending |-> {}, commands |-> << >>, wrote |-> FALSE,
   pkg |-> "", framework |-> "", out |-> [stdout |-> "", stderr |-> ""],
   parsed |-> "",
   ret |-> [none |-> TRUE]]

\* No function is being called, or the call has not returned.
NoCall == [fn |-> ""]

\* Longest patch list of submissions for instances the dataset lacks.
MaxSubmitted == 5

Slots == 1..(IF MaxSubmitted > MaxPatches THEN MaxSubmitted ELSE MaxPatches)

Undefined == "<undefined>"

NoValue == [reason |-> Undefined]

\* The locals of call k: of applyPatch, patchType, the commands it has seen
\* exit and the value it is about to return; testPatch is what Step 2's
\* applyPatch returned ("" while it has not run), which the code drops.
NoLocals ==
  [patchType |-> "", applied |-> FALSE, commands |-> << >>, testPatch |-> "",
   pkg |-> "", pattern |-> 0, runner |-> 0, testsFound |-> FALSE]

Settled(k) == pc[k] \in {"fulfilled", "rejected"}

InFlight(k) == pc[k] \notin {"idle", "fulfilled", "rejected"}

\* constructor: this.maxParallel = config.parallel_instances || 2
Constructed ==
  /\ \E parallel_instances \in ParallelConfigs :
       maxParallel = IF parallel_instances = 0 THEN DefaultParallel
                     ELSE parallel_instances
  /\ datasetOk \in BOOLEAN
  /\ datasetFile = DOMAIN Dataset
  /\ instances = << >>
  /\ patches = << >>
  /\ evalPc = "idle"
  /\ i = 0
  /\ results = << >>
  /\ returned = [total_instances |-> NaN]
  /\ pc = [k \in Slots |-> "idle"]
  /\ val = [k \in Slots |-> NoValue]
  /\ loc = [k \in Slots |-> NoLocals]
  /\ made = [k \in Slots |-> FALSE]
  /\ cleaned = [k \in Slots |-> FALSE]
  /\ spawned = [k \in Slots |-> {}]
  /\ completed = << >>
  /\ dirs = {}
  /\ activeRepos = << >>
  /\ disk = {}
  /\ patchFile = {}
  /\ call = [c \in Callers |-> IdleCall]

FunctionsIdle == fnIn = NoCall /\ fnOut = NoCall

\* runCommand has not been called.
NoCommand ==
  /\ child = "none"
  /\ code = [none |-> TRUE]
  /\ stdout = ""
  /\ stderr = ""
  /\ timeout = "none"
  /\ promise = [state |-> "none"]
  /\ settled = << >>
  /\ closing = "none"
  /\ logFile = << >>

\* An OrchestrationManager with no project, whose stop() was not called
NoProjects ==
  /\ projects = << >>
  /\ stopping = [pc |-> "idle", cursor |-> 1]

\* A project as createPluginProject() makes it (currentIteration 0,
\* infiniteMode false), whose development loop was not started
NoLoop ==
  loop = [project |-> [status |-> "idle", error |-> "", cancelledBy |-> "",
                       wf |-> [at |-> "working", phase |-> 2, threw |-> ""]],
          pc |-> "idle", stage |-> "mvp", success |-> FALSE,
          currentIteration |-> 0, maxIterations |-> 0,
          infiniteMode |-> FALSE, wasInfinite |-> FALSE,
          generated |-> 0, ret |-> ""]

Init == Constructed /\ FunctionsIdle /\ NoCommand /\ NoProjects /\ NoLoop

\* ------------------------------------------------------------------ results
\* evaluateSinglePatch, catch block
ErrorResult(id, message) ==
  [instance_id |-> id, resolved |-> FALSE,
   test_output |-> "Evaluation error: " \o message,
   patch_applied |-> FALSE, error |-> message,
   metadata |-> [timestamp |-> "now", evaluation_error |-> TRUE]]

\* Variant of PatchFailedResult: the two message texts swapped.
PatchFailedResult_swapped(id) ==
  [instance_id |-> id, resolved |-> FALSE,
   test_output |-> "Patch application failed",
   patch_applied |-> FALSE, error |-> "Failed to apply patch",
   metadata |-> [timestamp |-> "now"]]

\* evaluateSinglePatch, if (!patchApplied)
PatchFailedResult(id) ==
  [instance_id |-> id, resolved |-> FALSE,
   test_output |-> "Failed to apply patch",
   patch_applied |-> FALSE, error |-> "Patch application failed",
   metadata |-> [timestamp |-> "now"]]

\* evaluateSinglePatch, the result built from what runTests returned
TestedResult(id, testResult) ==
  [instance_id |-> id, resolved |-> testResult.success,
   test_output |-> testResult.output,
   patch_applied |-> TRUE, error |-> testResult.error,
   metadata |-> [timestamp |-> "now",
                 tests_run |-> testResult.testsRun,
                 tests_passed |-> testResult.testsPassed,
                 tests_failed |-> testResult.testsFailed,
                 compilation_success |-> testResult.compilationSuccess]]

\* Variant of ParsedTestResult: success is testsFailed === 0 alone.
ParsedTestResult_noRunCheck(output) ==
  LET parsed == parseTestOutput(output)
  IN [success |-> parsed.testsFailed = 0,
      output |-> output, error |-> Undefined,
      testsRun |-> parsed.testsRun, testsPassed |-> parsed.testsPassed,
      testsFailed |-> parsed.testsFailed, compilationSuccess |-> TRUE]

\* What runTests and runTestsDirectly return after a test command exited
\* with code 0 and printed `output`; they set no error.
ParsedTestResult(output) ==
  LET parsed == parseTestOutput(output)
  IN [success |-> parsed.testsFailed = 0 /\ parsed.testsRun > 0,
      output |-> output, error |-> Undefined,
      testsRun |-> parsed.testsRun, testsPassed |-> parsed.testsPassed,
      testsFailed |-> parsed.testsFailed, compilationSuccess |-> TRUE]

\* runTestsDirectly, if (!testsFound)
NoTestFilesResult ==
  [success |-> FALSE, output |-> "No test files found",
   error |-> "No test files found",
   testsRun |-> 0, testsPassed |-> 0, testsFailed |-> 0,
   compilationSuccess |-> TRUE]

\* runTestsDirectly, its last return: output is still '' there
CouldNotExecuteResult ==
  [success |-> FALSE, output |-> "Tests found but could not execute",
   error |-> "Could not execute test files",
   testsRun |-> 0, testsPassed |-> 0, testsFailed |-> 1,
   compilationSuccess |-> TRUE]

\* evaluate(), the result pushed for a rejected promise: idx is the position
\* of the promise in the batch that starts after patch `lo`.
RejectedResult(lo, idx, reason) ==
  LET id == patches[lo + idx].instance_id
  IN [instance_id |-> IF id = "" THEN "unknown" ELSE id,
      resolved |-> FALSE,
      test_output |-> "Evaluation failed: Error: " \o reason,
      patch_applied |-> FALSE, error |-> reason,
      metadata |-> [timestamp |-> "now", evaluation_failed |-> TRUE]]

\* formatResults: one InstanceResult per raw result, in the order of rawResults
InstanceResult(raw) ==
  [instance_id |-> raw.instance_id,
   resolved |-> raw.resolved,
   tests_passed |-> raw.resolved,
   compilation_success |->
     raw.patch_applied /\ ~("compilation_failed" \in DOMAIN raw.metadata),
   error |-> raw.error]

\* count / total in JavaScript, kept as the fraction it is: a denominator
\* of 0 stands for what is no number in [0,1] (0/0 is NaN, n/0 Infinity)
Quotient(count, total) == [num |-> count, den |-> total]

\* Variant of Rate: the quotient without the total > 0 test.
Rate_unguarded(count, total) == Quotient(count, total)

\* formatResults: total > 0 ? count / total : 0
Rate(count, total) == IF total > 0 THEN Quotient(count, total) ELSE Quotient(0, 1)

\* instanceResults.filter(r => r[field]).length
CountWhere(instanceResults, field) ==
  Cardinality({j \in 1..Len(instanceResults) : instanceResults[j][field]})

\* The resolved results at the positions i (from 0) with i % 3 = remainder
Bucket(instanceResults, remainder) ==
  Cardinality({j \in 1..Len(instanceResults) :
                 (j - 1) % 3 = remainder /\ instanceResults[j].resolved})

\* Variant of groupByComplexity: the positions are split in two, i % 2.
groupByComplexity_halves(instanceResults) ==
  LET Half(remainder) ==
        Cardinality({j \in 1..Len(instanceResults) :
                       (j - 1) % 2 = remainder /\ instanceResults[j].resolved})
  IN [low |-> Half(0), medium |-> Half(1), high |-> Half(0)]

\* groupByComplexity: results.forEach((r, i) => ...) by i % 3
groupByComplexity(instanceResults) ==
  [low |-> Bucket(instanceResults, 0),
   medium |-> Bucket(instanceResults, 1),
   high |-> Bucket(instanceResults, 2)]

formatResults(rawResults) ==
  LET instanceResults == [j \in 1..Len(rawResults) |-> InstanceResult(rawResults[j])]
      total == Len(instanceResults)
  IN [total_instances |-> total,
      resolved_instances |-> CountWhere(instanceResults, "resolved"),
      resolution_rate |-> Rate(CountWhere(instanceResults, "resolved"), total),
      exact_matches |-> CountWhere(instanceResults, "resolved"),
      test_pass_rate |-> Rate(CountWhere(instanceResults, "tests_passed"), total),
      compilation_success_rate |->
        Rate(CountWhere(instanceResults, "compilation_success"), total),
      per_instance_results |-> instanceResults,
      summary |-> [success_by_complexity |-> groupByComplexity(instanceResults)]]

\* ------------------------------------------------------------------ evaluate
\* Variant of Batch: patches.slice(i, i + this.maxParallel - 1).
Batch_short(lo) == {k \in 1..Len(patches) : lo < k /\ k < lo + maxParallel}

\* Variant of Batch: patches.slice(i, i + this.maxParallel + 1).
Batch_long(lo) == {k \in 1..Len(patches) : lo < k /\ k <= lo + maxParallel + 1}

\* patches.slice(i, i + this.maxParallel), as indexes into patches (from 1)
Batch(lo) == {k \in 1..Len(patches) : lo < k /\ k <= lo + maxParallel}

\* Variant of allSettled: the await is missing, so the loop over
\* batchResults throws at once and the catch block is all that runs.
allSettled_notAwaited(lo) == "thrown"

\* Variant of allSettled: Promise.all, which throws at the first rejection.
allSettled_all(lo) ==
  IF \E k \in Batch(lo) : pc[k] = "rejected" THEN "thrown"
  ELSE IF \A k \in Batch(lo) : Settled(k) THEN "settled" ELSE "pending"

\* await Promise.allSettled(batchPromises): resumes once every promise of the
\* batch has settled, and never throws
allSettled(lo) ==
  IF \A k \in Batch(lo) : Settled(k) THEN "settled" ELSE "pending"

\* Variant of BatchResults: each result is pushed as its promise settles, so
\* the entries come in the order of completion.
BatchResults_byCompletion(lo) ==
  [idx \in 1..Cardinality(Batch(lo)) |->
     IF pc[completed[idx]] = "fulfilled" THEN val[completed[idx]]
     ELSE RejectedResult(lo, idx, val[completed[idx]].reason)]

\* batchResults, in the order of batchPromises, turned into raw results
BatchResults(lo) ==
  [idx \in 1..Cardinality(Batch(lo)) |->
     IF pc[lo + idx] = "fulfilled" THEN val[lo + idx]
     ELSE RejectedResult(lo, idx, val[lo + idx].reason)]

\* The synchronous start of evaluateSinglePatch(patches[k]): the lookup in
\* this.instances throws (a rejected promise) or the call runs up to the
\* first await, the fs.rm of cloneRepository.
StartPc(k, insts) ==
  IF patches[k].instance_id \in DOMAIN insts THEN "cloneRm" ELSE "rejected"

StartVal(k, insts) ==
  IF patches[k].instance_id \in DOMAIN insts THEN NoValue
  ELSE [reason |-> "Instance " \o patches[k].instance_id \o " not found"]

\* The calls of the batch after patch lo that reject before their first
\* await, in the order batch.map() makes them
RECURSIVE RejectedFrom(_, _, _)
RejectedFrom(k, hi, insts) ==
  IF k > hi THEN << >>
  ELSE (IF StartPc(k, insts) = "rejected" THEN <<k>> ELSE << >>)
         \o RejectedFrom(k + 1, hi, insts)

RejectedAtStart(lo, insts) ==
  IF Batch(lo) = {} THEN << >>
  ELSE RejectedFrom(lo + 1, lo + Cardinality(Batch(lo)), insts)

\* One turn of the for loop of evaluate() from index lo with the results so
\* far: start the next batch, or return formatResults(results, patches).
Loop(lo, res, insts) ==
  /\ i' = lo
  /\ results' = res
  /\ IF lo < Len(patches)
       THEN /\ evalPc' = "awaiting"
            /\ pc' = [k \in Slots |-> IF k \in Batch(lo) THEN StartPc(k, insts) ELSE pc[k]]
            /\ val' = [k \in Slots |-> IF k \in Batch(lo) THEN StartVal(k, insts) ELSE val[k]]
            /\ completed' = RejectedAtStart(lo, insts)
            /\ UNCHANGED returned
       ELSE /\ evalPc' = "returned"
            /\ returned' = formatResults(res)
            /\ UNCHANGED <<pc, val, completed>>

\* evaluate(patches) is called: it runs into loadInstances up to the readFile.
evaluate(ps) ==
  /\ evalPc = "idle"
  /\ patches' = ps
  /\ evalPc' = "loading"
  /\ UNCHANGED <<outsideEngine, datasetOk, maxParallel, instances, i, results, returned, pc,
                 val, loc, made, cleaned, spawned, completed, dirs>>

\* Variant of LoadInstances: a requested id that the dataset lacks makes
\* loadInstances throw.
LoadInstances_strict ==
  /\ evalPc = "loading"
  /\ datasetOk
  /\ LET ids == {patches[k].instance_id : k \in 1..Len(patches)}
         loaded == [id \in DOMAIN instances \cup (datasetFile \cap ids) |->
                      Dataset[id]]
     IN IF ids \subseteq datasetFile
          THEN instances' = loaded /\ Loop(0, << >>, loaded)
          ELSE /\ evalPc' = "threw"
               /\ UNCHANGED <<instances, i, results, returned, pc, val, completed>>
  /\ UNCHANGED <<outsideEngine, datasetOk, maxParallel, patches, loc, made, cleaned, spawned, dirs>>

\* loadInstances: the dataset file is read and parsed; the requested ids it
\* holds are added to this.instances; evaluate() goes on to its first batch.
LoadInstances ==
  /\ evalPc = "loading"
  /\ datasetOk
  /\ LET ids == {patches[k].instance_id : k \in 1..Len(patches)}
         loaded == [id \in DOMAIN instances \cup (datasetFile \cap ids) |->
                      Dataset[id]]
     IN /\ instances' = loaded
        /\ Loop(0, << >>, loaded)
  /\ UNCHANGED <<outsideEngine, datasetOk, maxParallel, patches, loc, made, cleaned, spawned, dirs>>

\* loadInstances: readFile or JSON.parse throws; the error is rethrown and
\* leaves evaluate().
LoadInstancesThrows ==
  /\ evalPc = "loading"
  /\ ~datasetOk
  /\ evalPc' = "threw"
  /\ UNCHANGED <<outsideEngine, datasetOk, maxParallel, instances, patches, i, results,
                 returned, pc, val, loc, made, cleaned, spawned, completed, dirs>>

\* Variant of BatchDone: the loop index advances by maxParallel + 1.
BatchDone_skipping ==
  /\ evalPc = "awaiting"
  /\ allSettled(i) # "pending"
  /\ Loop(i + maxParallel + 1,
          IF allSettled(i) = "settled" THEN results \o BatchResults(i) ELSE results,
          instances)
  /\ UNCHANGED <<outsideEngine, datasetOk, maxParallel, instances, patches, loc, made, cleaned,
                 spawned, dirs>>

\* The await of Promise.allSettled resumes: the results of the batch are
\* pushed in the order of the batch (the catch block only logs), and the loop
\* goes on with the next batch or returns.
BatchDone ==
  /\ evalPc = "awaiting"
  /\ allSettled(i) # "pending"
  /\ Loop(i + maxParallel,
          IF allSettled(i) = "settled" THEN results \o BatchResults(i) ELSE results,
          instances)
  /\ UNCHANGED <<outsideEngine, datasetOk, maxParallel, instances, patches, loc, made, cleaned,
                 spawned, dirs>>

\* ------------------------------------------------------------------ evaluateSinglePatch
EvalVars == <<outsideEngine, datasetOk, maxParallel, instances, patches, evalPc, i,
              results, returned>>

Goto(k, p, l) ==
  /\ pc' = [pc EXCEPT ![k] = p]
  /\ loc' = [loc EXCEPT ![k] = l]
  /\ UNCHANGED val

\* The try block returns raw result r, or the catch block does: the finally
\* block starts its fs.rm before the promise settles.
Return(k, r) ==
  /\ pc' = [pc EXCEPT ![k] = "finally"]
  /\ val' = [val EXCEPT ![k] = r]
  /\ loc' = [loc EXCEPT ![k] = NoLocals]

\* Variant of Catch: the directory is removed at the end of the try block
\* only, so the catch block settles the promise without any removal.
Catch_noCleanup(k, message) ==
  /\ pc' = [pc EXCEPT ![k] = "fulfilled"]
  /\ val' = [val EXCEPT ![k] = ErrorResult(patches[k].instance_id, message)]
  /\ loc' = [loc EXCEPT ![k] = NoLocals]

\* evaluateSinglePatch, catch (error): the error becomes the result
Catch(k, message) == Return(k, ErrorResult(patches[k].instance_id, message))

\* runCommand spawns a command for call k inside function fn (runTests
\* standing for itself, installDependencies and runTestsDirectly)
Spawn(k, fn) == spawned' = [spawned EXCEPT ![k] = @ \cup {fn}]

\* runTests is entered: installDependencies awaits fs.access(package.json)
EnterRunTests(k) == [pc |-> "installAccess", loc |-> NoLocals]

\* Step 3, applyPatch(patch.model_patch, ...): an empty patch returns true at
\* once, any other is written to the temporary patch file first
EnterModelPatch(k) ==
  IF trim(patches[k].model_patch) = ""
    THEN EnterRunTests(k)
    ELSE [pc |-> "writePatch", loc |-> [NoLocals EXCEPT !.patchType = "model patch"]]

\* Step 2, if (instance.test_patch) applyPatch(instance.test_patch, ...)
EnterTestPatch(k) ==
  LET test_patch == instances[patches[k].instance_id].test_patch
  IN IF test_patch # "" /\ trim(test_patch) # ""
       THEN [pc |-> "writePatch", loc |-> [NoLocals EXCEPT !.patchType = "test patch"]]
       ELSE EnterModelPatch(k)

\* cloneRepository: fs.rm(workDir, {recursive, force}), errors ignored
cloneRepository_rm(k) ==
  /\ pc[k] = "cloneRm"
  /\ \E removed \in BOOLEAN :
       dirs' = IF removed THEN dirs \ {patches[k].instance_id} ELSE dirs
  /\ Goto(k, "mkdir", loc[k])
  /\ UNCHANGED <<EvalVars, completed, made, cleaned, spawned>>

\* cloneRepository: fs.mkdir(workDir), then git clone is spawned
cloneRepository_mkdir(k) ==
  /\ pc[k] = "mkdir"
  /\ \/ /\ dirs' = dirs \cup {patches[k].instance_id}
        /\ made' = [made EXCEPT ![k] = TRUE]
        /\ Spawn(k, "cloneRepository")
        /\ Goto(k, "gitClone", loc[k])
     \/ /\ Catch(k, FsError)
        /\ UNCHANGED <<dirs, made, spawned>>
  /\ UNCHANGED <<EvalVars, completed, cleaned>>

\* Variant of cloneRepository_clone: no git checkout of base_commit, Step 2
\* follows the clone at once.
cloneRepository_clone_noCheckout(k) ==
  /\ pc[k] = "gitClone"
  /\ \/ Goto(k, EnterTestPatch(k).pc, EnterTestPatch(k).loc)
     \/ \E kind \in CommandFailures : Catch(k, CommandError(kind, "clone repository"))
  /\ UNCHANGED <<EvalVars, completed, made, cleaned, spawned, dirs>>

\* cloneRepository: git clone --depth 50 exits, then git checkout is spawned
cloneRepository_clone(k) ==
  /\ pc[k] = "gitClone"
  /\ \/ Goto(k, "gitCheckout", loc[k])
     \/ \E kind \in CommandFailures : Catch(k, CommandError(kind, "clone repository"))
  /\ UNCHANGED <<EvalVars, completed, made, cleaned, spawned, dirs>>

\* cloneRepository: git checkout base_commit exits; on success Step 2 follows
cloneRepository_checkout(k) ==
  /\ pc[k] = "gitCheckout"
  /\ \/ Goto(k, EnterTestPatch(k).pc, EnterTestPatch(k).loc)
     \/ \E kind \in CommandFailures : Catch(k, CommandError(kind, "checkout base commit"))
  /\ UNCHANGED <<EvalVars, completed, made, cleaned, spawned, dirs>>

\* applyPatch: fs.writeFile(patchFile) outside the try, then git apply
applyPatch_writeFile(k) ==
  /\ pc[k] = "writePatch"
  /\ \/ Spawn(k, "applyPatch") /\ Goto(k, "gitApply", loc[k])
     \/ Catch(k, FsError) /\ UNCHANGED spawned
  /\ UNCHANGED <<EvalVars, completed, made, cleaned, dirs>>

\* Variant of applyPatch_gitApply: no fallback, a failure of git apply makes
\* applyPatch return false.
applyPatch_gitApply_noFallback(k) ==
  /\ pc[k] = "gitApply"
  /\ \/ Goto(k, "unlink", [loc[k] EXCEPT !.applied = TRUE,
                                         !.commands = <<"git apply: ok">>])
     \/ Goto(k, "unlink", [loc[k] EXCEPT !.commands = <<"git apply: failed">>])
  /\ UNCHANGED <<EvalVars, completed, made, cleaned, spawned, dirs>>

\* applyPatch: git apply exits; on failure the patch command is spawned
applyPatch_gitApply(k) ==
  /\ pc[k] = "gitApply"
  /\ \/ Goto(k, "unlink", [loc[k] EXCEPT !.applied = TRUE,
                                         !.commands = <<"git apply: ok">>])
     \/ Goto(k, "patchCommand", [loc[k] EXCEPT !.commands = <<"git apply: failed">>])
  /\ UNCHANGED <<EvalVars, completed, made, cleaned, spawned, dirs>>

\* applyPatch: patch -p1 exits: return true, or return false
applyPatch_patch(k) ==
  /\ pc[k] = "patchCommand"
  /\ \E ok \in BOOLEAN :
       Goto(k, "unlink",
            [loc[k] EXCEPT !.applied = ok,
                           !.commands = Append(@, IF ok THEN "patch: ok"
                                                        ELSE "patch: failed")])
  /\ UNCHANGED <<EvalVars, completed, made, cleaned, spawned, dirs>>

\* Variant of applyPatch_unlink: the value applyPatch returned for the test
\* patch is tested like the one for the model patch.
applyPatch_unlink_testPatchFatal(k) ==
  /\ pc[k] = "unlink"
  /\ IF ~loc[k].applied
       THEN Return(k, PatchFailedResult(patches[k].instance_id))
       ELSE IF loc[k].patchType = "test patch"
         THEN Goto(k, EnterModelPatch(k).pc, EnterModelPatch(k).loc)
         ELSE Goto(k, EnterRunTests(k).pc, EnterRunTests(k).loc)
  /\ UNCHANGED <<EvalVars, completed, made, cleaned, spawned, dirs>>

\* applyPatch: the finally block's fs.unlink(patchFile) is over and the call
\* returns: the outcome of the test patch is dropped, a model patch that did
\* not apply ends the evaluation, one that did leads to Step 4, runTests.
applyPatch_unlink(k) ==
  /\ pc[k] = "unlink"
  /\ IF loc[k].patchType = "test patch"
       THEN Goto(k, EnterModelPatch(k).pc,
                 IF EnterModelPatch(k).pc = "writePatch"
                   THEN [EnterModelPatch(k).loc EXCEPT
                           !.testPatch = IF loc[k].applied THEN "true" ELSE "false"]
                   ELSE EnterModelPatch(k).loc)
       ELSE IF loc[k].applied
         THEN Goto(k, EnterRunTests(k).pc, EnterRunTests(k).loc)
         ELSE Return(k, PatchFailedResult(patches[k].instance_id))
  /\ UNCHANGED <<EvalVars, completed, made, cleaned, spawned, dirs>>

\* ------------------------------------------------------------------ runTests
\* runTestsDirectly is entered (no usable test script, or npm test failed):
\* find is spawned for the first test pattern
EnterRunTestsDirectly(k) ==
  /\ Spawn(k, "runTests")
  /\ Goto(k, "find", [NoLocals EXCEPT !.pattern = 1])

\* runTestsDirectly: the loop over testPatterns moves past pattern l.pattern;
\* past the last one the function returns one of its two failure results
NextPattern(k, l) ==
  IF l.pattern < NumPatterns
    THEN /\ Goto(k, "find", [l EXCEPT !.pattern = @ + 1, !.runner = 0])
         /\ UNCHANGED spawned
    ELSE /\ Return(k, TestedResult(patches[k].instance_id,
                       IF l.testsFound THEN CouldNotExecuteResult ELSE NoTestFilesResult))
         /\ UNCHANGED spawned

\* installDependencies: fs.access(package.json) tells what the checkout
\* holds; npm install is spawned if the file exists, else the error is
\* swallowed and runTests goes on to its own fs.access
installDependencies_access(k) ==
  /\ pc[k] = "installAccess"
  /\ \E kind \in PkgKinds :
       IF kind = "none"
         THEN Goto(k, "pkgAccess", [loc[k] EXCEPT !.pkg = kind]) /\ UNCHANGED spawned
         ELSE Goto(k, "npmInstall", [loc[k] EXCEPT !.pkg = kind]) /\ Spawn(k, "runTests")
  /\ UNCHANGED <<EvalVars, completed, made, cleaned, dirs>>

\* Variant of installDependencies_install: no try/catch around npm install,
\* whose rejection reaches the catch block of evaluateSinglePatch.
installDependencies_install_throwing(k) ==
  /\ pc[k] = "npmInstall"
  /\ \/ Goto(k, "pkgAccess", [loc[k] EXCEPT !.commands = <<"npm install: ok">>])
     \/ \E kind \in CommandFailures :
          Catch(k, CommandError(kind, "install dependencies"))
  /\ UNCHANGED <<EvalVars, completed, made, cleaned, spawned, dirs>>

\* installDependencies: npm install exits; a failure is logged and swallowed,
\* and runTests goes on to its own fs.access either way
installDependencies_install(k) ==
  /\ pc[k] = "npmInstall"
  /\ \E outcome \in {"ok"} \cup CommandFailures :
       Goto(k, "pkgAccess",
            [loc[k] EXCEPT !.commands =
               <<"npm install: " \o (IF outcome = "ok" THEN "ok" ELSE "failed")>>])
  /\ UNCHANGED <<EvalVars, completed, made, cleaned, spawned, dirs>>

\* runTests: fs.access(package.json); without the file the inner catch runs
\* runTestsDirectly
runTests_access(k) ==
  /\ pc[k] = "pkgAccess"
  /\ IF loc[k].pkg = "none"
       THEN EnterRunTestsDirectly(k)
       ELSE Goto(k, "pkgRead", [loc[k] EXCEPT !.commands = << >>])
              /\ UNCHANGED spawned
  /\ UNCHANGED <<EvalVars, completed, made, cleaned, dirs>>

\* runTests: package.json is read and parsed: npm test is spawned if it has
\* scripts.test; runTestsDirectly runs if it has none or is not JSON
runTests_read(k) ==
  /\ pc[k] = "pkgRead"
  /\ IF loc[k].pkg = "script"
       THEN Goto(k, "npmTest", NoLocals) /\ Spawn(k, "runTests")
       ELSE EnterRunTestsDirectly(k)
  /\ UNCHANGED <<EvalVars, completed, made, cleaned, dirs>>

\* runTests: npm test exits: with code 0 its stdout is parsed and returned;
\* any rejection is caught by the inner catch, which runs runTestsDirectly
runTests_npmTest(k) ==
  /\ pc[k] = "npmTest"
  /\ \/ /\ \E output \in SampleOutputs :
             Return(k, TestedResult(patches[k].instance_id, ParsedTestResult(output)))
        /\ UNCHANGED spawned
     \/ EnterRunTestsDirectly(k)
  /\ UNCHANGED <<EvalVars, completed, made, cleaned, dirs>>

\* runTestsDirectly: find exits: with files found the first runner is
\* spawned; with none, or with a failure, the next pattern is tried
runTestsDirectly_find(k) ==
  /\ pc[k] = "find"
  /\ \/ /\ Goto(k, "runner", [loc[k] EXCEPT !.testsFound = TRUE, !.runner = 1])
        /\ UNCHANGED spawned
     \/ NextPattern(k, loc[k])
  /\ UNCHANGED <<EvalVars, completed, made, cleaned, dirs>>

\* runTestsDirectly: npx <runner> exits: with code 0 its stdout is parsed and
\* returned; else the next runner, and after the last one the next pattern
runTestsDirectly_runner(k) ==
  /\ pc[k] = "runner"
  /\ \/ /\ \E output \in SampleOutputs :
             Return(k, TestedResult(patches[k].instance_id, ParsedTestResult(output)))
        /\ UNCHANGED spawned
     \/ IF loc[k].runner < NumRunners
          THEN Goto(k, "runner", [loc[k] EXCEPT !.runner = @ + 1]) /\ UNCHANGED spawned
          ELSE NextPattern(k, loc[k])
  /\ UNCHANGED <<EvalVars, completed, made, cleaned, dirs>>

\* evaluateSinglePatch, finally: fs.rm(repoWorkDir) is over, a failure of it
\* only logged; the promise is fulfilled with the result returned before
evaluateSinglePatch_finally(k) ==
  /\ pc[k] = "finally"
  /\ \E removed \in BOOLEAN :
       dirs' = IF removed THEN dirs \ {patches[k].instance_id} ELSE dirs
  /\ cleaned' = [cleaned EXCEPT ![k] = TRUE]
  /\ pc' = [pc EXCEPT ![k] = "fulfilled"]
  /\ completed' = Append(completed, k)
  /\ UNCHANGED <<EvalVars, val, loc, made, spawned>>

\* ------------------------------------------------------------------ specification
Next ==
  \/ \E ps \in PatchLists : evaluate(ps)
  \/ LoadInstances
  \/ LoadInstancesThrows
  \/ BatchDone
  \/ \E k \in Slots :
       \/ cloneRepository_rm(k)
       \/ cloneRepository_mkdir(k)
       \/ cloneRepository_clone(k)
       \/ cloneRepository_checkout(k)
       \/ applyPatch_writeFile(k)
       \/ applyPatch_gitApply(k)
       \/ applyPatch_patch(k)
       \/ applyPatch_unlink(k)
       \/ installDependencies_access(k)
       \/ installDependencies_install(k)
       \/ runTests_access(k)
       \/ runTests_read(k)
       \/ runTests_npmTest(k)
       \/ runTestsDirectly_find(k)
       \/ runTestsDirectly_runner(k)
       \/ evaluateSinglePatch_finally(k)

Spec == Init /\ [][Next]_vars

\* ------------------------------------------------------------------ claims
Submitted == 1..Len(patches)

\* Batch number of patch index k: evaluate() takes the patches in
\* consecutive groups of maxParallel.
BatchNo(k) == (k - 1) \div maxParallel

\* C1: evaluate() returns exactly one entry per submitted patch: while it
\* runs, results holds one entry for each patch of the batches that are over,
\* and per_instance_results and total_instances of what it returns count
\* exactly the submitted patches.
C1_OneResultPerPatch ==
  /\ evalPc = "awaiting" => Len(results) = i
  /\ evalPc = "returned" =>
       /\ Len(results) = Len(patches)
       /\ returned.total_instances = Len(patches)
       /\ Len(returned.per_instance_results) = Len(patches)

\* C1 witness: evaluate() has returned for two patches, one whose instance
\* is missing from the dataset and one whose model patch failed to apply.
C1_Witness ==
  /\ evalPc = "returned"
  /\ Len(patches) = 2
  /\ \E j \in Submitted : "evaluation_failed" \in DOMAIN results[j].metadata
  /\ \E j \in Submitted : results[j].error = "Patch application failed"

\* C2: an attempt that created its working directory has run the fs.rm of
\* the finally block by the time its promise settles, on every path; and the
\* step that ends the finally block, whether the removal worked or failed,
\* fulfils the promise with the result that was returned before it.
C2_CleanupBeforeResult ==
  /\ [](\A k \in Slots : (made[k] /\ Settled(k)) => cleaned[k])
  /\ [][\A k \in Slots :
          (pc[k] = "finally" /\ pc'[k] # "finally") =>
            (pc'[k] = "fulfilled" /\ val'[k] = val[k] /\ cleaned'[k])]_vars

\* C2 witness: a stage threw (git clone timed out) after the directory was
\* made, the removal in the finally block failed (the directory is still
\* there) and the promise is fulfilled with the error result.
C2_Witness ==
  /\ Len(patches) = 1
  /\ pc[1] = "fulfilled" /\ made[1] /\ cleaned[1]
  /\ patches[1].instance_id \in dirs
  /\ val[1].error = "Command \"clone repository\" timed out after 300000ms"

\* C3: when applyPatch returns false for the model patch (git apply and the
\* patch command both failed) the evaluation returns exactly
\* patch_applied=false, resolved=false, error="Patch application failed",
\* and an evaluation with that result has spawned no command of runTests
\* (no dependency installation, no test command).
C3_PatchFailureIsTerminal ==
  /\ [][\A k \in Slots :
          (/\ pc[k] = "unlink" /\ pc'[k] # "unlink"
           /\ loc[k].patchType = "model patch" /\ ~loc[k].applied) =>
            (/\ pc'[k] = "finally"
             /\ val'[k].instance_id = patches[k].instance_id
             /\ val'[k].patch_applied = FALSE
             /\ val'[k].resolved = FALSE
             /\ val'[k].error = "Patch application failed"
             /\ "runTests" \notin spawned'[k])]_vars
  /\ [](\A k \in Slots :
          (/\ pc[k] \in {"finally", "fulfilled"}
           /\ val[k].error = "Patch application failed") =>
            (~val[k].patch_applied /\ ~val[k].resolved /\ "runTests" \notin spawned[k]))

\* C3 witness: instance "b" has no test_patch, both git apply and the patch
\* command were spawned for the model patch, and the evaluation is fulfilled
\* with the patch failure.
C3_Witness ==
  \E k \in Submitted :
    /\ patches[k].instance_id = "b"
    /\ pc[k] = "fulfilled"
    /\ "applyPatch" \in spawned[k]
    /\ val[k].error = "Patch application failed"

C5_BoundedFanOut ==
  Cardinality({k \in Slots : InFlight(k)}) <= maxParallel

\* C5 witness: two evaluations are in flight at once.
C5_Witness ==
  /\ maxParallel = 2
  /\ Cardinality({k \in Slots : InFlight(k)}) = 2

\* The instance_id evaluate() reports for patch index k: the patch's own,
\* with 'unknown' standing in for an empty one.
ReportedId(k) ==
  IF patches[k].instance_id = "" THEN "unknown" ELSE patches[k].instance_id

\* C6 as stated: per_instance_results[idx].instance_id equals
\* patches[idx].instance_id for every index of the returned result.
C6_Original ==
  evalPc = "returned" =>
    \A idx \in Submitted :
      /\ idx \in DOMAIN returned.per_instance_results
      /\ returned.per_instance_results[idx].instance_id = patches[idx].instance_id

\* C6 as amended: the returned list has one entry per patch, in submission
\* order under every completion order: entry idx carries the instance_id of
\* patches[idx] when that id is not empty, and 'unknown' when it is empty.
C6_SubmissionOrder ==
  evalPc = "returned" =>
    /\ DOMAIN returned.per_instance_results = Submitted
    /\ \A idx \in Submitted :
         returned.per_instance_results[idx].instance_id = ReportedId(idx)

\* C6 witness: two evaluations of one batch, for instances "a" and "b",
\* settled in the reverse of their submission order, and evaluate() returned.
C6_Witness ==
  /\ evalPc = "returned"
  /\ Len(patches) = 2
  /\ patches[1].instance_id = "a" /\ patches[2].instance_id = "b"
  /\ completed = <<2, 1>>

\* What C7 says of a rejected evaluation k whose batch is over, with `id`
\* the instance_id its result must carry: the result is in results at the
\* index of the patch, is a failure carrying the rejection reason as error,
\* and every fulfilled sibling of the same batch has its own result there too.
RejectionIsolated(k, id) ==
  /\ k <= Len(results)
  /\ results[k].instance_id = id
  /\ results[k].resolved = FALSE
  /\ results[k].patch_applied = FALSE
  /\ results[k].error = val[k].reason
  /\ \A j \in Submitted :
       (BatchNo(j) = BatchNo(k) /\ pc[j] = "fulfilled") =>
         (j <= Len(results) /\ results[j] = val[j])

\* C7 as stated: the result of a rejected evaluation is attributed to the
\* instance_id of the patch that rejected.
C7_Original ==
  \A k \in Submitted :
    (pc[k] = "rejected" /\ k <= i) => RejectionIsolated(k, patches[k].instance_id)

\* C7 as amended: a rejection does not abort its siblings, and the rejected
\* evaluation becomes a result with resolved=false, patch_applied=false and
\* the rejection reason as error, attributed to the instance_id of its patch
\* when that id is not empty and to 'unknown' when it is empty.
C7_RejectionIsolated ==
  \A k \in Submitted :
    (pc[k] = "rejected" /\ k <= i) => RejectionIsolated(k, ReportedId(k))

\* C7 witness: in one batch the evaluation for the missing instance "c"
\* rejected and its sibling went on to a resolved result; both are in results.
C7_Witness ==
  \E k \in Submitted : \E j \in Submitted :
    /\ BatchNo(j) = BatchNo(k) /\ Len(results) = 2
    /\ pc[k] = "rejected" /\ patches[k].instance_id = "c"
    /\ pc[j] = "fulfilled" /\ results[j].resolved

\* C8: evaluate() throws only when loadInstances could not read or parse
\* the dataset file, and then before any evaluation started; no error of an
\* instance evaluation makes it throw.
C8_OnlySetupFailureThrows ==
  evalPc = "threw" =>
    (~datasetOk /\ results = << >> /\ \A k \in Slots : pc[k] = "idle")

\* C8 witness: evaluate() returned although one instance was missing from
\* the dataset and the git checkout of the other timed out.
C8_Witness ==
  /\ evalPc = "returned"
  /\ Len(results) = 2
  /\ results[1].error = "Instance c not found"
  /\ results[2].error = "Command \"checkout base commit\" timed out after 300000ms"

\* C9 as stated: every raw result with resolved=false carries a non-empty
\* error string and a non-empty test_output.
C9_FailuresCarryError ==
  \A j \in 1..Len(results) :
    ~results[j].resolved =>
      (results[j].error \notin {Undefined, ""} /\ results[j].test_output # "")

\* C10: a raw result has resolved=true exactly when the model patch was
\* applied and the test run reported at least one test and no failure.
C10_ResolvedIff ==
  \A j \in 1..Len(results) :
    results[j].resolved <=>
      /\ results[j].patch_applied
      /\ "tests_run" \in DOMAIN results[j].metadata
      /\ results[j].metadata.tests_run > 0
      /\ results[j].metadata.tests_failed = 0

\* C10 witness: a resolved result next to an applied patch whose test run
\* reported failures.
C10_Witness ==
  /\ Len(results) = 2
  /\ results[1].resolved
  /\ results[2].patch_applied /\ ~results[2].resolved
  /\ results[2].metadata.tests_failed > 0

\* ------------------------------------------------------------------ C11
RateFields == {"resolution_rate", "test_pass_rate", "compilation_success_rate"}

InUnitInterval(r) == r.den > 0 /\ 0 <= r.num /\ r.num <= r.den

\* C11: the three rates formatResults returns are numbers in [0,1], and all
\* three are 0 (a number, not NaN) when total_instances is 0.
C11_RatesInUnitInterval ==
  evalPc = "returned" =>
    /\ \A f \in RateFields : InUnitInterval(returned[f])
    /\ returned.total_instances = 0 =>
         \A f \in RateFields : returned[f].den > 0 /\ returned[f].num = 0

\* C11 witness: evaluate() has returned for an empty list of patches.
C11_Witness ==
  /\ evalPc = "returned"
  /\ patches = << >>
  /\ returned.total_instances = 0
  /\ returned.resolution_rate = Quotient(0, 1)

\* ------------------------------------------------------------------ C12
\* The stage an evaluation is in, read off the await it is suspended at.
Stage(p) ==
  CASE p = "idle" -> "pending"
    [] p \in {"cloneRm", "mkdir", "gitClone", "gitCheckout"} -> "cloning"
    [] p \in {"writePatch", "gitApply", "patchCommand", "unlink"} -> "patching"
    [] p \in {"installAccess", "npmInstall", "pkgAccess", "pkgRead", "npmTest",
              "find", "runner"} -> "testing"
    [] OTHER -> "done"

\* One step of evaluation k from stage `from` to another stage `to`: only
\* forward to the next stage and only when the stage before succeeded, or
\* straight to the end with a failed result.
StageStep(k, from, to, p, l, q, v) ==
  \/ from = "pending" /\ to = "cloning"
  \/ from = "pending" /\ q = "rejected"
  \/ from = "cloning" /\ to = "patching" /\ p = "gitCheckout"
  \/ from = "cloning" /\ to = "testing" /\ p = "gitCheckout"
       /\ trim(patches[k].model_patch) = ""
  \/ from = "patching" /\ to = "testing"
       /\ \/ p = "unlink" /\ l.patchType = "model patch" /\ l.applied
          \/ p = "unlink" /\ l.patchType = "test patch"
               /\ trim(patches[k].model_patch) = ""
  \/ from \in {"cloning", "patching"} /\ q = "finally"
       /\ ~v.resolved /\ ~v.patch_applied /\ v.error # Undefined
  \/ from = "testing" /\ q = "finally" /\ v.patch_applied
  \/ p = "finally" /\ q = "fulfilled"

\* C12: an evaluation moves pending -> cloning -> patching -> testing ->
\* done only: patching starts after git checkout succeeded, testing after
\* applyPatch returned true for the model patch, and a fatal error ends the
\* evaluation with a failed result without entering a later stage (no test
\* command was spawned unless the testing stage was entered).
C12_StageOrder ==
  /\ [][\A k \in Slots :
          Stage(pc[k]) # Stage(pc'[k]) =>
            StageStep(k, Stage(pc[k]), Stage(pc'[k]), pc[k], loc[k], pc'[k], val'[k])]_vars
  /\ [](\A k \in Slots :
          /\ Stage(pc[k]) \in {"pending", "cloning"} => spawned[k] \subseteq {"cloneRepository"}
          /\ Stage(pc[k]) = "patching" => "runTests" \notin spawned[k]
          /\ (pc[k] \in {"finally", "fulfilled"} /\ ~val[k].patch_applied) =>
               "runTests" \notin spawned[k])

\* C12 witness: one evaluation failed at git checkout and was cleaned up
\* having spawned nothing but the clone commands, another went through all
\* stages and resolved.
C12_Witness ==
  \E j, k \in Slots :
    /\ pc[j] = "fulfilled" /\ ~val[j].patch_applied
    /\ val[j].error = CommandError("nonzero", "checkout base commit")
    /\ spawned[j] = {"cloneRepository"}
    /\ pc[k] = "fulfilled" /\ val[k].resolved
    /\ spawned[k] = {"cloneRepository", "applyPatch", "runTests"}

\* ------------------------------------------------------------------ C13
\* C13: inside applyPatch the patch command runs only after git apply has
\* failed and then runs once; applyPatch returns true right after git apply
\* succeeded or after the patch command succeeded, and false only after git
\* apply and then the patch command have both failed.
C13_PatchFallbackOnce ==
  \A k \in Slots :
    /\ pc[k] = "gitApply" => loc[k].commands = << >>
    /\ pc[k] = "patchCommand" => loc[k].commands = <<"git apply: failed">>
    /\ pc[k] = "unlink" =>
         \/ loc[k].applied /\ loc[k].commands = <<"git apply: ok">>
         \/ loc[k].applied /\ loc[k].commands = <<"git apply: failed", "patch: ok">>
         \/ ~loc[k].applied
              /\ loc[k].commands = <<"git apply: failed", "patch: failed">>

\* C13 witness: one applyPatch is about to return false after both commands
\* failed, another to return true because the patch command succeeded.
C13_Witness ==
  \E j, k \in Slots :
    /\ pc[j] = "unlink" /\ ~loc[j].applied
    /\ loc[j].commands = <<"git apply: failed", "patch: failed">>
    /\ pc[k] = "unlink" /\ loc[k].applied
    /\ loc[k].commands = <<"git apply: failed", "patch: ok">>

\* ------------------------------------------------------------------ C14
\* C14: whatever applyPatch returned for the test patch, Step 3 follows: the
\* model patch is applied next (or, being empty, counts as applied) and the
\* evaluation is not ended; patch_applied of the result is false when
\* applyPatch returned false for the model patch and true for every result
\* of the tests that run when it returned true.
C14_TestPatchBestEffort ==
  [][\A k \in Slots :
       /\ (pc[k] = "unlink" /\ pc'[k] # "unlink") =>
            IF loc[k].patchType = "test patch"
              THEN \/ /\ pc'[k] = "writePatch"
                      /\ loc'[k].patchType = "model patch"
                      /\ loc'[k].testPatch = IF loc[k].applied THEN "true" ELSE "false"
                   \/ /\ Stage(pc'[k]) = "testing"
                      /\ trim(patches[k].model_patch) = ""
              ELSE IF loc[k].applied
                THEN Stage(pc'[k]) = "testing"
                ELSE pc'[k] = "finally" /\ ~val'[k].patch_applied
       /\ (Stage(pc[k]) = "testing" /\ pc'[k] = "finally") => val'[k].patch_applied]_vars

\* C14 witness: the test patch could not be applied, the model patch was
\* applied after it and applyPatch is about to return true for it.
C14_Witness ==
  \E k \in Slots :
    /\ pc[k] = "unlink"
    /\ loc[k].patchType = "model patch"
    /\ loc[k].testPatch = "false"
    /\ loc[k].applied

\* ================================================================== RepositoryManager
\* RepositoryManager (src/unnamed/part_000): a table activeRepos from
\* instance id to checkout path, and the calls that clone, patch, test and
\* remove checkouts.  Two callers use one manager; an action is one
\* await-to-await segment of one call.

\* The instances the callers pass: one with an ordinary id and one whose
\* instance_id is the empty string.
RepoInstances ==
  { [instance_id |-> "a", repo |-> "o/r"],
    [instance_id |-> "", repo |-> "o/r"] }

\* instance.repo.split('/').pop()
RepoName(repo) == CASE repo = "o/r" -> "r" [] OTHER -> repo

\* path.join(this.workDir, `${repoName}-${instance.instance_id}`)
RepoPath(instance) == RepoName(instance.repo) \o "-" \o instance.instance_id

\* The paths the callers pass to applyPatch, runTests and cleanup
RepoPaths == {RepoPath(instance) : instance \in RepoInstances}

\* --- the Map activeRepos
Keys == {activeRepos[n].id : n \in DOMAIN activeRepos}

\* Map.prototype.has
MapHas(id) == id \in Keys

IndexOf(id) == CHOOSE n \in DOMAIN activeRepos : activeRepos[n].id = id

\* Map.prototype.get of a key the Map has
MapGet(id) == activeRepos[IndexOf(id)].path

\* Map.prototype.set: a new key is appended, a known key keeps its place
MapSet(id, path) ==
  IF MapHas(id)
    THEN [activeRepos EXCEPT ![IndexOf(id)].path = path]
    ELSE Append(activeRepos, [id |-> id, path |-> path])

Without(n) ==
  [m \in 1..(Len(activeRepos) - 1) |->
     IF m < n THEN activeRepos[m] ELSE activeRepos[m + 1]]

\* Map.prototype.delete
MapDelete(id) == IF MapHas(id) THEN Without(IndexOf(id)) ELSE activeRepos

\* A Map iterator stands after `cursor` live entries; deleting an entry it
\* has passed moves it back by one, so that it visits every entry that is
\* in the Map when it gets there, whenever the entry was added.
CursorAfterDelete(cursor, id) ==
  IF MapHas(id) /\ IndexOf(id) <= cursor THEN cursor - 1 ELSE cursor

\* --- a call's bookkeeping
Free(c) == call[c].pc \in {"idle", "returned", "threw"}

\* Caller c starts operation op
Begin(c, op) == [IdleCall EXCEPT !.op = op]

\* The other callers' iterators, after the Map lost key id (if it held it)
\* and cleanup was called for `path`
Others(c, id, path) ==
  [d \in Callers |->
     IF d = c THEN call[d]
     ELSE [call[d] EXCEPT !.cursor = CursorAfterDelete(@, id),
                          !.pending = @ \ {path}]]

\* ------------------------------------------------------------------ cloneRepository
\* A cloneRepository that tracks the instance_id before its first await, so
\* that a later call for the same id returns the path instead of cloning
\* (what the code does not do)
cloneRepository_call_reserving(c, instance) ==
  /\ Free(c)
  /\ call' = [call EXCEPT ![c] =
       IF MapHas(instance.instance_id)
         THEN [Begin(c, "cloneRepository") EXCEPT
                 !.id = instance.instance_id, !.path = RepoPath(instance),
                 !.pc = "returned", !.ret = [path |-> MapGet(instance.instance_id)]]
         ELSE [Begin(c, "cloneRepository") EXCEPT
                 !.id = instance.instance_id, !.path = RepoPath(instance),
                 !.pc = "rm"]]
  /\ activeRepos' = MapSet(instance.instance_id, RepoPath(instance))
  /\ UNCHANGED <<outsideManager, disk, patchFile>>

\* cloneRepository(instance): a tracked instance_id returns its path at
\* once; otherwise fs.rm(repoPath) is awaited
cloneRepository_call(c, instance) ==
  /\ Free(c)
  /\ call' = [call EXCEPT ![c] =
       IF MapHas(instance.instance_id)
         THEN [Begin(c, "cloneRepository") EXCEPT
                 !.id = instance.instance_id, !.path = RepoPath(instance),
                 !.pc = "returned", !.ret = [path |-> MapGet(instance.instance_id)]]
         ELSE [Begin(c, "cloneRepository") EXCEPT
                 !.id = instance.instance_id, !.path = RepoPath(instance),
                 !.pc = "rm"]]
  /\ UNCHANGED <<outsideManager, activeRepos, disk, patchFile>>

\* The call goes on to its next await having run `command`
Step(c, p, command) ==
  call' = [call EXCEPT ![c].pc = p, ![c].commands = Append(@, command)]

\* catch (error) { throw error }
Throw(c, message) ==
  call' = [call EXCEPT ![c].pc = "threw", ![c].ret = [error |-> message]]

\* fs.rm(repoPath, {recursive, force}) is over, its error ignored; git clone
\* is run
repoRm(c) ==
  /\ call[c].op = "cloneRepository" /\ call[c].pc = "rm"
  /\ \E removed \in BOOLEAN :
       /\ disk' = IF removed THEN disk \ {call[c].path} ELSE disk
       /\ patchFile' = IF removed THEN patchFile \ {call[c].path} ELSE patchFile
  /\ Step(c, "clone", "git clone")
  /\ UNCHANGED <<outsideManager, activeRepos>>

\* git clone exits: git checkout base_commit is run, or the error is thrown
repoClone(c) ==
  /\ call[c].op = "cloneRepository" /\ call[c].pc = "clone"
  /\ \/ disk' = disk \cup {call[c].path} /\ Step(c, "checkout", "git checkout")
     \/ Throw(c, "git clone failed") /\ UNCHANGED disk
  /\ UNCHANGED <<outsideManager, activeRepos, patchFile>>

\* git checkout exits: git checkout -b swe-bench-<id> is run, or throw
repoCheckout(c) ==
  /\ call[c].op = "cloneRepository" /\ call[c].pc = "checkout"
  /\ \/ Step(c, "branch", "git checkout -b")
     \/ Throw(c, "git checkout failed")
  /\ UNCHANGED <<outsideManager, activeRepos, disk, patchFile>>

\* git checkout -b exits: installDependencies is awaited, or throw
repoBranch(c) ==
  /\ call[c].op = "cloneRepository" /\ call[c].pc = "branch"
  /\ \/ Step(c, "install", "install")
     \/ Throw(c, "git checkout -b failed")
  /\ UNCHANGED <<outsideManager, activeRepos, disk, patchFile>>

\* Variant of repoInstalled: the table is written before the clone, so a
\* call that throws has left its entry behind.
repoInstalled_early(c) ==
  /\ call[c].op = "cloneRepository" /\ call[c].pc \in {"clone", "install"}
  /\ activeRepos' = MapSet(call[c].id, call[c].path)
  /\ IF call[c].pc = "clone"
       THEN Throw(c, "git clone failed")
       ELSE call' = [call EXCEPT ![c].pc = "returned",
                                 ![c].ret = [path |-> call[c].path]]
  /\ UNCHANGED <<outsideManager, disk, patchFile>>

\* installDependencies returns (it catches its errors): the entry is set
\* and repoPath returned
repoInstalled(c) ==
  /\ call[c].op = "cloneRepository" /\ call[c].pc = "install"
  /\ activeRepos' = MapSet(call[c].id, call[c].path)
  /\ call' = [call EXCEPT ![c].pc = "returned", ![c].ret = [path |-> call[c].path]]
  /\ UNCHANGED <<outsideManager, disk, patchFile>>

\* ------------------------------------------------------------------ cleanup
\* The first key of activeRepos whose value is repoPath, or undefined
FindInstanceId(repoPath) ==
  IF \E n \in DOMAIN activeRepos : activeRepos[n].path = repoPath
    THEN activeRepos[CHOOSE n \in DOMAIN activeRepos :
                       /\ activeRepos[n].path = repoPath
                       /\ \A m \in 1..(n - 1) : activeRepos[m].path # repoPath].id
    ELSE Undefined

\* if (instanceId): undefined and the empty string are falsy
Truthy(instanceId) == instanceId # Undefined /\ instanceId # ""

\* cleanup(repoPath) up to its await: the entry found for repoPath is
\* deleted if its key is truthy, then fs.rm(repoPath) is awaited
CleanupSync(repoPath) ==
  IF Truthy(FindInstanceId(repoPath)) THEN FindInstanceId(repoPath) ELSE Undefined

cleanup_call(c, repoPath) ==
  /\ Free(c)
  /\ activeRepos' = MapDelete(CleanupSync(repoPath))
  /\ call' = [Others(c, CleanupSync(repoPath), repoPath) EXCEPT ![c] =
       [Begin(c, "cleanup") EXCEPT !.path = repoPath, !.pc = "rm"]]
  /\ UNCHANGED <<outsideManager, disk, patchFile>>

\* fs.rm(repoPath) is over: removed, or its error caught and logged
cleanup_rm(c) ==
  /\ call[c].op = "cleanup" /\ call[c].pc = "rm"
  /\ \E removed \in BOOLEAN :
       /\ disk' = IF removed THEN disk \ {call[c].path} ELSE disk
       /\ patchFile' = IF removed THEN patchFile \ {call[c].path} ELSE patchFile
  /\ call' = [call EXCEPT ![c].pc = "returned", ![c].ret = [void |-> TRUE]]
  /\ UNCHANGED <<outsideManager, activeRepos>>

\* ------------------------------------------------------------------ cleanupAll
\* for (const repoPath of this.activeRepos.values()) await this.cleanup(
\* repoPath): the iterator of caller c, standing after `cursor` entries,
\* yields the next entry and cleanup runs up to its fs.rm; after the last
\* entry activeRepos.clear() ends the call
Iterate(c, cursor, pending) ==
  IF cursor < Len(activeRepos)
    THEN LET repoPath == activeRepos[cursor + 1].path
             id == CleanupSync(repoPath)
         IN /\ activeRepos' = MapDelete(id)
            /\ call' = [Others(c, id, repoPath) EXCEPT ![c] =
                 [call[c] EXCEPT !.op = "cleanupAll", !.pc = "rm",
                                 !.path = repoPath,
                                 !.cursor = CursorAfterDelete(cursor + 1, id),
                                 !.pending = pending \ {repoPath},
                                 !.ret = [none |-> TRUE]]]
    ELSE /\ activeRepos' = << >>
         /\ call' = [d \in Callers |->
              IF d = c
                THEN [call[c] EXCEPT !.op = "cleanupAll", !.pc = "returned",
                                     !.cursor = 0, !.pending = pending,
                                     !.ret = [void |-> TRUE]]
                ELSE [call[d] EXCEPT !.cursor = 0]]

cleanupAll_call(c) ==
  /\ Free(c)
  /\ Iterate(c, 0, {activeRepos[n].path : n \in DOMAIN activeRepos})
  /\ UNCHANGED <<outsideManager, disk, patchFile>>

\* The fs.rm of the cleanup that cleanupAll awaits is over
cleanupAll_rm(c) ==
  /\ call[c].op = "cleanupAll" /\ call[c].pc = "rm"
  /\ \E removed \in BOOLEAN :
       /\ disk' = IF removed THEN disk \ {call[c].path} ELSE disk
       /\ patchFile' = IF removed THEN patchFile \ {call[c].path} ELSE patchFile
  /\ Iterate(c, call[c].cursor, call[c].pending)
  /\ UNCHANGED outsideManager

\* ------------------------------------------------------------------ RepositoryManager.applyPatch
\* The patches the callers pass
RepoPatches == {"diff --git m", "", "   "}

\* applyPatch(repoPath, patch): fs.writeFile(patchFile, patch) is awaited
\* whatever the patch holds
repoApplyPatch_call(c, repoPath, patch) ==
  /\ Free(c)
  /\ call' = [call EXCEPT ![c] =
       [Begin(c, "applyPatch") EXCEPT !.path = repoPath, !.patch = patch,
                                      !.pc = "write"]]
  /\ UNCHANGED <<outsideManager, activeRepos, disk, patchFile>>

\* return of a boolean
ReturnBool(c, b) ==
  call' = [call EXCEPT ![c].pc = "returned", ![c].ret = [value |-> b]]

\* fs.writeFile is over: git apply is run on the file, or the catch block
\* returns false
repoApplyPatch_write(c) ==
  /\ call[c].op = "applyPatch" /\ call[c].pc = "write"
  /\ \/ /\ patchFile' = patchFile \cup {call[c].path}
        /\ call' = [call EXCEPT ![c].pc = "gitApply", ![c].wrote = TRUE,
                                ![c].commands = Append(@, "git apply")]
     \/ /\ ReturnBool(c, FALSE)
        /\ UNCHANGED patchFile
  /\ UNCHANGED <<outsideManager, activeRepos, disk>>

\* What git apply can end with: exit 0 with an empty stderr or with warnings
\* only, exit 0 with another stderr, a non-zero exit
GitApplyOutcomes == {"clean", "warning", "stderr", "error"}

\* git apply exits: with a stderr that is no warning, or with an error,
\* false is returned at once; else fs.unlink(patchFile) is awaited
repoApplyPatch_gitApply(c) ==
  /\ call[c].op = "applyPatch" /\ call[c].pc = "gitApply"
  /\ \E outcome \in GitApplyOutcomes :
       IF outcome \in {"clean", "warning"}
         THEN call' = [call EXCEPT ![c].pc = "unlink", ![c].ret = [value |-> TRUE]]
         ELSE ReturnBool(c, FALSE)
  /\ UNCHANGED <<outsideManager, activeRepos, disk, patchFile>>

\* fs.unlink is over: the file is gone and the value is returned, or unlink
\* threw and the catch block returns false
repoApplyPatch_unlink(c) ==
  /\ call[c].op = "applyPatch" /\ call[c].pc = "unlink"
  /\ \/ /\ patchFile' = patchFile \ {call[c].path}
        /\ ReturnBool(c, call[c].ret.value)
     \/ /\ ReturnBool(c, FALSE)
        /\ UNCHANGED patchFile
  /\ UNCHANGED <<outsideManager, activeRepos, disk>>

\* ------------------------------------------------------------------ RepositoryManager.runTests
ZeroResults ==
  [total |-> 0, passed |-> 0, failed |-> 0, skipped |-> 0, duration |-> 0,
   failures |-> << >>]

\* runTests, outer catch
ErrorResults(message) ==
  [total |-> 0, passed |-> 0, failed |-> 1, skipped |-> 0, duration |-> 0,
   failures |-> <<[test_name |-> "Test execution", error_message |-> message]>>]

\* What detectTestFramework returns ("other": none of the two whose result
\* file runTests can read)
Frameworks == {"jest", "mocha", "other"}

\* What the test command printed
RepoOutputs ==
  { [stdout |-> "ok", stderr |-> ""],
    [stdout |-> "Error: boom", stderr |-> ""],
    [stdout |-> "", stderr |-> "Error: boom"],
    [stdout |-> "2 passing", stderr |-> ""],
    [stdout |-> "2 passing", stderr |-> "Error: boom"],
    [stdout |-> "1 passing 1 failing", stderr |-> "npm ERR! Test failed"] }

\* String.prototype.includes on the texts of RepoOutputs
Includes(text, needle) ==
  CASE needle = "Error" -> text = "Error: boom"
    [] needle = "failed" -> text = "npm ERR! Test failed"
    [] OTHER -> FALSE

\* combinedOutput.match(regex): the number captured, NaN standing for null.
\* The regexes are /(\d+)\s+passing/i, /(\d+)\s+failing/i, /(\d+)\s+pass/i,
\* /(\d+)\s+fail/i, /Tests:\s+(\d+)\s+passed/i, /Tests:\s+(\d+)\s+failed/i.
Match(combinedOutput, regex) ==
  CASE combinedOutput \in {"2 passing\n", "2 passing\nError: boom"} /\
         regex \in {"passing", "pass"} -> 2
    [] combinedOutput = "1 passing 1 failing\nnpm ERR! Test failed" /\
         regex \in {"passing", "pass", "failing", "fail"} -> 1
    [] OTHER -> NaN

\* a || b || c for match results
FirstMatch(combinedOutput, regexes) ==
  IF Match(combinedOutput, regexes[1]) # NaN THEN Match(combinedOutput, regexes[1])
  ELSE IF Match(combinedOutput, regexes[2]) # NaN THEN Match(combinedOutput, regexes[2])
  ELSE Match(combinedOutput, regexes[3])

Max(x, y) == IF x > y THEN x ELSE y

\* Variant of HasErrorIndicator: stdout is searched as well.
HasErrorIndicator_anywhere(out) ==
  \/ Includes(out.stderr, "Error") \/ Includes(out.stderr, "failed")
  \/ Includes(out.stdout, "Error") \/ Includes(out.stdout, "failed")

\* stderr.includes('Error') || stderr.includes('failed')
HasErrorIndicator(out) ==
  Includes(out.stderr, "Error") \/ Includes(out.stderr, "failed")

\* runTests, catch (jsonError): the counts are taken from stdout + '\n' +
\* stderr
FallbackResults(out) ==
  LET combinedOutput == out.stdout \o "\n" \o out.stderr
      passMatch == FirstMatch(combinedOutput, <<"passing", "pass", "Tests: passed">>)
      failMatch == FirstMatch(combinedOutput, <<"failing", "fail", "Tests: failed">>)
      passed0 == IF passMatch # NaN THEN passMatch ELSE 0
      failed0 == IF failMatch # NaN THEN failMatch ELSE 0
      total0 == passed0 + failed0
      assumed == total0 = 0 /\ ~HasErrorIndicator(out)
      passed1 == IF assumed THEN 1 ELSE passed0
      total1 == IF assumed THEN 1 ELSE total0
      failing == failed0 > 0 \/ HasErrorIndicator(out)
      errorMessage == IF out.stderr # "" THEN out.stderr
                      ELSE IF out.stdout # "" THEN out.stdout
                      ELSE "Test execution failed"
  IN [total |-> IF failing /\ failed0 = 0 THEN Max(total1, 1) ELSE total1,
      passed |-> passed1,
      failed |-> IF failing /\ failed0 = 0 THEN 1 ELSE failed0,
      skipped |-> 0, duration |-> 1,
      failures |-> IF failing
                     THEN <<[test_name |-> "Test suite", error_message |-> errorMessage]>>
                     ELSE << >>]

\* What test-results.json holds when it can be read and parsed
JestReport ==
  [numTotalTests |-> 2, numPassedTests |-> 1, numFailedTests |-> 1,
   testResults |-> <<[assertionResults |->
                        <<[status |-> "passed", title |-> "t1"],
                          [status |-> "failed", title |-> "t2"]>>]>>]

MochaReport ==
  [stats |-> [tests |-> 2, passes |-> 2, failures |-> 0, pending |-> 0],
   failures |-> << >>]

JsonReports == {JestReport, MochaReport}

\* x.field || 0
FieldOr0(x, field) == IF field \in DOMAIN x THEN x[field] ELSE 0

\* runTests, the counts read from test-results.json for the framework found
StructuredResults(framework, jsonResults) ==
  CASE framework = "jest" ->
         [total |-> FieldOr0(jsonResults, "numTotalTests"),
          passed |-> FieldOr0(jsonResults, "numPassedTests"),
          failed |-> FieldOr0(jsonResults, "numFailedTests"),
          skipped |-> FieldOr0(jsonResults, "numPendingTests"),
          duration |-> 1,
          failures |->
            IF "testResults" \in DOMAIN jsonResults
              THEN LET assertions == jsonResults.testResults[1].assertionResults
                       failedAt == {n \in DOMAIN assertions : assertions[n].status = "failed"}
                   IN IF failedAt = {} THEN << >>
                      ELSE <<[test_name |-> assertions[CHOOSE n \in failedAt : TRUE].title,
                              error_message |-> "Test failed"]>>
              ELSE << >>]
    [] framework = "mocha" ->
         [total |-> IF "stats" \in DOMAIN jsonResults THEN jsonResults.stats.tests ELSE 0,
          passed |-> IF "stats" \in DOMAIN jsonResults THEN jsonResults.stats.passes ELSE 0,
          failed |-> IF "stats" \in DOMAIN jsonResults THEN jsonResults.stats.failures ELSE 0,
          skipped |-> IF "stats" \in DOMAIN jsonResults THEN jsonResults.stats.pending ELSE 0,
          duration |-> 1,
          failures |-> << >>]
    [] OTHER -> [ZeroResults EXCEPT !.duration = 1]

\* runTests(repoPath): fs.access(package.json) is awaited
repoRunTests_call(c, repoPath) ==
  /\ Free(c)
  /\ call' = [call EXCEPT ![c] =
       [Begin(c, "runTests") EXCEPT !.path = repoPath, !.pc = "access"]]
  /\ UNCHANGED <<outsideManager, activeRepos, disk, patchFile>>

\* fs.access is over: without package.json zeroed results are returned,
\* else the file is read
repoRunTests_access(c) ==
  /\ call[c].op = "runTests" /\ call[c].pc = "access"
  /\ \/ call' = [call EXCEPT ![c].pc = "returned", ![c].pkg = "none",
                                ![c].ret = ZeroResults]
     \/ call' = [call EXCEPT ![c].pc = "read"]
  /\ UNCHANGED <<outsideManager, activeRepos, disk, patchFile>>

\* Variant of repoRunTests_read: the test command is run before
\* scripts.test is looked at.
repoRunTests_read_runFirst(c) ==
  /\ call[c].op = "runTests" /\ call[c].pc = "read"
  /\ \E kind \in PkgKinds \ {"none"} :
       CASE kind = "invalid" ->
              call' = [call EXCEPT ![c].pc = "returned", ![c].pkg = kind,
                                   ![c].ret = ErrorResults("Unexpected token")]
         [] kind = "noscript" ->
              call' = [call EXCEPT ![c].pc = "returned", ![c].pkg = kind,
                                   ![c].ret = ZeroResults,
                                   ![c].commands = Append(@, "npm test")]
         [] OTHER -> call' = [call EXCEPT ![c].pc = "detect", ![c].pkg = kind]
  /\ UNCHANGED <<outsideManager, activeRepos, disk, patchFile>>

\* package.json is read and parsed: not JSON, the outer catch returns one
\* failure; without scripts.test zeroed results are returned; else
\* detectTestFramework is awaited
repoRunTests_read(c) ==
  /\ call[c].op = "runTests" /\ call[c].pc = "read"
  /\ \E kind \in PkgKinds \ {"none"} :
       CASE kind = "invalid" ->
              call' = [call EXCEPT ![c].pc = "returned", ![c].pkg = kind,
                                   ![c].ret = ErrorResults("Unexpected token")]
         [] kind = "noscript" ->
              call' = [call EXCEPT ![c].pc = "returned", ![c].pkg = kind,
                                   ![c].ret = ZeroResults]
         [] OTHER -> call' = [call EXCEPT ![c].pc = "detect", ![c].pkg = kind]
  /\ UNCHANGED <<outsideManager, activeRepos, disk, patchFile>>

\* detectTestFramework returns (it reads files only): the test command for
\* the framework is run
repoRunTests_detect(c) ==
  /\ call[c].op = "runTests" /\ call[c].pc = "detect"
  /\ \E framework \in Frameworks :
       call' = [call EXCEPT ![c].pc = "test", ![c].framework = framework,
                            ![c].commands = Append(@, "npm test")]
  /\ UNCHANGED <<outsideManager, activeRepos, disk, patchFile>>

\* The test command exits, with any code: its stdout and stderr are kept
\* and test-results.json is read
repoRunTests_test(c) ==
  /\ call[c].op = "runTests" /\ call[c].pc = "test"
  /\ \E out \in RepoOutputs :
       call' = [call EXCEPT ![c].pc = "json", ![c].out = out]
  /\ UNCHANGED <<outsideManager, activeRepos, disk, patchFile>>

\* test-results.json is read and parsed, or it cannot be and the counts are
\* taken from the output
repoRunTests_json(c) ==
  /\ call[c].op = "runTests" /\ call[c].pc = "json"
  /\ \/ \E jsonResults \in JsonReports :
          call' = [call EXCEPT ![c].pc = "returned", ![c].parsed = "structured",
                     ![c].ret = StructuredResults(call[c].framework, jsonResults)]
     \/ call' = [call EXCEPT ![c].pc = "returned", ![c].parsed = "fallback",
                               ![c].ret = FallbackResults(call[c].out)]
  /\ UNCHANGED <<outsideManager, activeRepos, disk, patchFile>>

\* ------------------------------------------------------------------ generateDiff
\* What git diff --cached prints
DiffTexts == {"", "diff --git a/f b/f"}

\* return of the diff text
ReturnDiff(c, text) ==
  call' = [call EXCEPT ![c].pc = "returned", ![c].ret = [diff |-> text]]

\* generateDiff(repoPath): fs.access(repoPath) is awaited
repoGenerateDiff_call(c, repoPath) ==
  /\ Free(c)
  /\ call' = [call EXCEPT ![c] =
       [Begin(c, "generateDiff") EXCEPT !.path = repoPath, !.pc = "access"]]
  /\ UNCHANGED <<outsideManager, activeRepos, disk, patchFile>>

\* fs.access is over: git status is run in a directory that exists, else
\* '' is returned
repoGenerateDiff_access(c) ==
  /\ call[c].op = "generateDiff" /\ call[c].pc = "access"
  /\ \/ Step(c, "status", "git status")
     \/ ReturnDiff(c, "")
  /\ UNCHANGED <<outsideManager, activeRepos, disk, patchFile>>

\* git status exits: git add -A is run, or '' is returned for a directory
\* that is no git repository
repoGenerateDiff_status(c) ==
  /\ call[c].op = "generateDiff" /\ call[c].pc = "status"
  /\ \/ Step(c, "add", "git add -A")
     \/ ReturnDiff(c, "")
  /\ UNCHANGED <<outsideManager, activeRepos, disk, patchFile>>

\* git add -A exits: git diff --cached is run, or '' is returned
repoGenerateDiff_add(c) ==
  /\ call[c].op = "generateDiff" /\ call[c].pc = "add"
  /\ \/ Step(c, "diff", "git diff --cached")
     \/ ReturnDiff(c, "")
  /\ UNCHANGED <<outsideManager, activeRepos, disk, patchFile>>

\* git diff --cached exits: with its stdout in hand git reset is run; its
\* rejection is caught by the outer catch block, which returns ''
repoGenerateDiff_diff(c) ==
  /\ call[c].op = "generateDiff" /\ call[c].pc = "diff"
  /\ \/ \E stdout_ \in DiffTexts :
          call' = [call EXCEPT ![c].pc = "reset",
                               ![c].commands = Append(@, "git reset"),
                               ![c].out.stdout = stdout_]
     \/ ReturnDiff(c, "")
  /\ UNCHANGED <<outsideManager, activeRepos, disk, patchFile>>

\* git reset exits, its failure only logged: stdout is returned
repoGenerateDiff_reset(c) ==
  /\ call[c].op = "generateDiff" /\ call[c].pc = "reset"
  /\ ReturnDiff(c, call[c].out.stdout)
  /\ UNCHANGED <<outsideManager, activeRepos, disk, patchFile>>

\* ------------------------------------------------------------------ specification
InitRM ==
  /\ Init
  /\ datasetOk
  /\ maxParallel = DefaultParallel

\* The calls that read and write the table activeRepos, from two callers
NextRM ==
  \E c \in Callers :
    \/ \E instance \in RepoInstances : cloneRepository_call(c, instance)
    \/ repoRm(c)
    \/ repoClone(c)
    \/ repoCheckout(c)
    \/ repoBranch(c)
    \/ repoInstalled(c)
    \/ \E repoPath \in RepoPaths : cleanup_call(c, repoPath)
    \/ cleanup_rm(c)
    \/ cleanupAll_call(c)
    \/ cleanupAll_rm(c)

SpecRM == InitRM /\ [][NextRM]_vars

\* The calls that work inside one checkout, which has one user at a time
CheckoutUsers == {1}

NextCheckout ==
  \E c \in CheckoutUsers :
    \/ \E repoPath \in RepoPaths, patch \in RepoPatches :
         repoApplyPatch_call(c, repoPath, patch)
    \/ repoApplyPatch_write(c)
    \/ repoApplyPatch_gitApply(c)
    \/ repoApplyPatch_unlink(c)
    \/ \E repoPath \in RepoPaths : repoRunTests_call(c, repoPath)
    \/ repoRunTests_access(c)
    \/ repoRunTests_read(c)
    \/ repoRunTests_detect(c)
    \/ repoRunTests_test(c)
    \/ repoRunTests_json(c)
    \/ \E repoPath \in RepoPaths : repoGenerateDiff_call(c, repoPath)
    \/ repoGenerateDiff_access(c)
    \/ repoGenerateDiff_status(c)
    \/ repoGenerateDiff_add(c)
    \/ repoGenerateDiff_diff(c)
    \/ repoGenerateDiff_reset(c)

SpecCheckout == InitRM /\ [][NextCheckout]_vars

\* ------------------------------------------------------------------ C15
\* C15: an applyPatch call with an empty or whitespace-only patch has
\* written no patch file and run no command at any point, and returns true.
C15_EmptyPatchNoOp ==
  \A c \in CheckoutUsers :
    (call[c].op = "applyPatch" /\ trim(call[c].patch) = "") =>
      /\ ~call[c].wrote
      /\ call[c].commands = << >>
      /\ call[c].pc = "returned" => call[c].ret = [value |-> TRUE]

\* ------------------------------------------------------------------ C16
\* C16: when applyPatch has returned for a non-empty patch, the checkout
\* holds no swe-bench.patch file.
C16_PatchFileRemoved ==
  \A c \in CheckoutUsers :
    (call[c].op = "applyPatch" /\ call[c].pc = "returned"
       /\ trim(call[c].patch) # "") =>
      call[c].path \notin patchFile

\* ------------------------------------------------------------------ C17
\* Caller c starts a cloneRepository call in this step
StartsClone(c) ==
  /\ Free(c)
  /\ call'[c] # call[c]
  /\ call'[c].op = "cloneRepository"

\* C17: a cloneRepository call for an instance_id the table tracks returns
\* the tracked path at once: it runs no command and changes neither the
\* table nor the checkouts on disk; and a cloneRepository call that throws
\* leaves the table as it was.
C17_CloneIdempotent ==
  [][\A c \in Callers :
       /\ (StartsClone(c) /\ MapHas(call'[c].id)) =>
            /\ call'[c].pc = "returned"
            /\ call'[c].ret = [path |-> MapGet(call'[c].id)]
            /\ call'[c].commands = << >>
            /\ activeRepos' = activeRepos
            /\ disk' = disk
       /\ (call[c].op = "cloneRepository" /\ call[c].pc # "threw"
             /\ call'[c].pc = "threw") =>
            activeRepos' = activeRepos]_vars

\* C17 witness: caller 1 cloned instance "a", and caller 2's later call for
\* it has returned the same path without running a command, the table and
\* the checkout being as caller 1 left them.
C17_Witness ==
  /\ call[1].op = "cloneRepository" /\ call[1].pc = "returned"
  /\ call[1].commands = <<"git clone", "git checkout", "git checkout -b", "install">>
  /\ call[2].op = "cloneRepository" /\ call[2].pc = "returned"
  /\ call[2].id = "a" /\ call[2].commands = << >>
  /\ call[2].ret = call[1].ret
  /\ activeRepos = <<[id |-> "a", path |-> "r-a"]>>
  /\ "r-a" \in disk

\* ------------------------------------------------------------------ C18
\* No other caller has made a call
Alone(c) == \A d \in Callers \ {c} : call[d].pc = "idle"

TrackedPaths == {activeRepos[n].path : n \in DOMAIN activeRepos}

\* C18: for a caller that uses the manager alone: cleanup(path) does not
\* throw and, once it has returned, no entry of the table maps to path;
\* cleanupAll() does not throw and, once it has returned, the table is empty
\* and cleanup was called for every path that was tracked.
C18_CleanupForgets ==
  \A c \in Callers :
    Alone(c) =>
      /\ call[c].op \in {"cleanup", "cleanupAll"} => call[c].pc # "threw"
      /\ (call[c].op = "cleanup" /\ call[c].pc = "returned") =>
           call[c].path \notin TrackedPaths
      /\ (call[c].op = "cleanupAll" /\ call[c].pc = "returned") =>
           activeRepos = << >> /\ call[c].pending = {}

\* ------------------------------------------------------------------ C19
\* C19: runTests on a checkout without package.json, or whose package.json
\* has no scripts.test, returns zero counts and no failures and has run no
\* command.
C19_NothingToRun ==
  \A c \in CheckoutUsers :
    (call[c].op = "runTests" /\ call[c].pc = "returned"
       /\ call[c].pkg \in {"none", "noscript"}) =>
      /\ call[c].ret.total = 0 /\ call[c].ret.passed = 0
      /\ call[c].ret.failed = 0 /\ call[c].ret.skipped = 0
      /\ call[c].ret.failures = << >>
      /\ call[c].commands = << >>

\* C19 witness: runTests has returned for a package.json without
\* scripts.test.
C19_Witness ==
  \E c \in CheckoutUsers :
    /\ call[c].op = "runTests" /\ call[c].pc = "returned"
    /\ call[c].pkg = "noscript"
    /\ call[c].ret = ZeroResults
    /\ call[c].commands = << >>

\* ------------------------------------------------------------------ C20
CountRegexes ==
  {"passing", "failing", "pass", "fail", "Tests: passed", "Tests: failed"}

\* No count pattern matches stdout + '\n' + stderr
NoCountMatch(out) ==
  \A regex \in CountRegexes : Match(out.stdout \o "\n" \o out.stderr, regex) = NaN

IndicatorIn(text) == Includes(text, "Error") \/ Includes(text, "failed")

\* runTests has returned counts taken from the output, which no count
\* pattern matched
FellBack(c) ==
  /\ call[c].op = "runTests" /\ call[c].pc = "returned"
  /\ call[c].parsed = "fallback"
  /\ NoCountMatch(call[c].out)

OnePassing(r) == r.passed = 1 /\ r.total = 1 /\ r.failed = 0

\* C20 as stated: without an error indicator in stdout and stderr the run
\* counts as one passing test; with one anywhere in the output it does not
\* count as passing.
C20_Original ==
  \A c \in CheckoutUsers :
    FellBack(c) =>
      IF IndicatorIn(call[c].out.stdout) \/ IndicatorIn(call[c].out.stderr)
        THEN call[c].ret.passed = 0
        ELSE OnePassing(call[c].ret)

\* C20 as amended: only stderr is searched: without 'Error' and 'failed' in
\* stderr the run counts as one passing test, whatever stdout holds; with
\* one of them in stderr it counts as one failing test and no passing one.
C20_OptimisticPass ==
  \A c \in CheckoutUsers :
    FellBack(c) =>
      IF IndicatorIn(call[c].out.stderr)
        THEN call[c].ret.passed = 0 /\ call[c].ret.failed = 1 /\ call[c].ret.total = 1
        ELSE OnePassing(call[c].ret)

\* C20 witness: the command printed "Error: boom" on stdout and nothing on
\* stderr, and the run was counted as one passing test.
C20_Witness ==
  \E c \in CheckoutUsers :
    /\ FellBack(c)
    /\ call[c].out = [stdout |-> "Error: boom", stderr |-> ""]
    /\ OnePassing(call[c].ret)
    /\ call[c].ret.failures = << >>

\* ------------------------------------------------------------------ functions
\* The functions of the engine that read and write no state, each applied to
\* one argument.
\* The longest error message below, in words.
MaxWords == 2

\* The needles of classifyError
Keywords ==
  {"timeout", "compilation", "compile", "test", "assertion", "patch", "apply",
   "install", "dependency", "git", "clone", "import", "module"}

\* Words of error messages that hold an upper-case letter, with what
\* String.prototype.toLowerCase() makes of them.
LowerCased ==
  [TIMEOUT |-> "timeout", Timeout |-> "timeout", COMPILE |-> "compile",
   TEST |-> "test", Patch |-> "patch", INSTALL |-> "install", GIT |-> "git",
   IMPORT |-> "import", Command |-> "command", ENOENT |-> "enoent"]

\* The words error messages are made of: a message is a sequence of words,
\* which spaces and punctuation separate in the text.
Words ==
  Keywords \cup DOMAIN LowerCased
    \cup {"latest", "tests", "github", "timed", "out", "failed"}

ErrorMessages == SeqsUpTo(Words, MaxWords)

\* error.toLowerCase()
toLowerCase(error) ==
  [k \in DOMAIN error |->
     IF error[k] \in DOMAIN LowerCased THEN LowerCased[error[k]] ELSE error[k]]

\* The needles that are substrings of a word (no needle holds a space, and
\* none is a substring of another).
KeywordsIn(word) ==
  CASE word \in Keywords -> {word}
    [] word \in {"latest", "tests"} -> {"test"}
    [] word = "github" -> {"git"}
    [] OTHER -> {}

\* text.includes(needle): case-sensitive
includes(text, needle) == \E k \in DOMAIN text : needle \in KeywordsIn(text[k])

\* Variant of classifyError: the message is searched as it is, without
\* toLowerCase().
classifyError_caseSensitive(error) ==
  IF includes(error, "timeout") THEN "Timeout"
  ELSE IF includes(error, "compilation") \/ includes(error, "compile")
    THEN "Compilation Error"
  ELSE IF includes(error, "test") \/ includes(error, "assertion")
    THEN "Test Failure"
  ELSE IF includes(error, "patch") \/ includes(error, "apply")
    THEN "Patch Application Failed"
  ELSE IF includes(error, "install") \/ includes(error, "dependency")
    THEN "Dependency Error"
  ELSE IF includes(error, "git") \/ includes(error, "clone")
    THEN "Repository Error"
  ELSE IF includes(error, "import") \/ includes(error, "module")
    THEN "Import Error"
  ELSE "Other Error"

classifyError(error) ==
  LET errorLower == toLowerCase(error)
  IN IF includes(errorLower, "timeout") THEN "Timeout"
     ELSE IF includes(errorLower, "compilation") \/ includes(errorLower, "compile")
       THEN "Compilation Error"
     ELSE IF includes(errorLower, "test") \/ includes(errorLower, "assertion")
       THEN "Test Failure"
     ELSE IF includes(errorLower, "patch") \/ includes(errorLower, "apply")
       THEN "Patch Application Failed"
     ELSE IF includes(errorLower, "install") \/ includes(errorLower, "dependency")
       THEN "Dependency Error"
     ELSE IF includes(errorLower, "git") \/ includes(errorLower, "clone")
       THEN "Repository Error"
     ELSE IF includes(errorLower, "import") \/ includes(errorLower, "module")
       THEN "Import Error"
     ELSE "Other Error"

\* The words of the message CommandError(kind, description)
CommandErrorWords(kind, description) ==
  <<"Command">> \o
  (CASE description = "clone repository" -> <<"clone", "repository">>
     [] description = "checkout base commit" -> <<"checkout", "base", "commit">>) \o
  (CASE kind = "timeout" -> <<"timed", "out", "after", "300000ms">>
     [] kind = "nonzero" -> <<"failed", "with", "code", "1", "stderr">>
     [] kind = "spawn"   -> <<"failed", "to", "start", "spawn", "ENOENT">>)

\* --- RepositoryManager.detectTestFramework
\* Packages a package.json may list in dependencies or devDependencies
Packages ==
  {"jest", "@types/jest", "vitest", "chai", "karma", "tape",
   "@testing-library/react", "jasmine", "lodash"}

\* The most packages a sampled manifest lists
MaxDeps == 2

\* scripts.test of a package.json ('' when it has none)
TestScripts ==
  {"", "jest --ci", "vitest run", "mocha && jest", "karma start",
   "tape test.js", "jasmine", "grunt test", "node test.js"}

\* testScript.includes(needle) on the scripts above
ScriptIncludes(testScript, needle) ==
  CASE needle = "jest" -> testScript \in {"jest --ci", "mocha && jest"}
    [] needle = "vitest" -> testScript = "vitest run"
    [] needle = "mocha" -> testScript = "mocha && jest"
    [] needle = "karma" -> testScript = "karma start"
    [] needle = "tape" -> testScript = "tape test.js"
    [] needle = "jasmine" -> testScript = "jasmine"
    [] needle = "grunt test" -> testScript = "grunt test"
    [] OTHER -> FALSE

\* What the look at the test files gives once a test/ or spec/ directory
\* exists: findFiles rejects, it finds no file, the first file cannot be
\* read, or the idioms the first file's content includes
TestFiles ==
  {[found |-> "threw"], [found |-> "none"], [found |-> "unreadable"]}
    \cup {[found |-> "read", content |-> idioms] :
            idioms \in {{}, {"describe(", "it(", "expect(", ".toBe("},
                        {"describe(", "it(", "expect(", ".to."},
                        {"describe(", "it("}, {"describe(", "test("},
                        {"test("}}}

\* The repositories detectTestFramework is called on
Repositories ==
  {[pkg |-> "unreadable"]}
    \cup {[pkg |-> "read", deps |-> deps, testScript |-> testScript,
           testDir |-> FALSE] :
            deps \in {d \in SUBSET Packages : Cardinality(d) <= MaxDeps},
            testScript \in TestScripts}
    \cup {[pkg |-> "read", deps |-> deps, testScript |-> testScript,
           testDir |-> TRUE, testFiles |-> testFiles] :
            deps \in {{}, {"lodash"}, {"tape"}},
            testScript \in {"", "node test.js", "jasmine"},
            testFiles \in TestFiles}

\* The guess from the first test file's content
FromContent(content) ==
  IF "describe(" \in content /\ "it(" \in content
    THEN IF "expect(" \in content /\ ".toBe(" \in content THEN "jest"
         ELSE "mocha"
  ELSE IF "test(" \in content THEN "tape"
  ELSE "mocha"

\* The framework a listed package stands for ("" if none does)
FromDeps(deps) ==
  IF deps \cap {"jest", "@types/jest"} # {} THEN "jest"
  ELSE IF "vitest" \in deps THEN "vitest"
  ELSE IF deps \cap {"mocha", "@types/mocha", "chai"} # {} THEN "mocha"
  ELSE IF deps \cap {"karma", "karma-jasmine", "karma-chrome-launcher"} # {}
    THEN "karma"
  ELSE IF deps \cap {"tape", "tape-catch"} # {} THEN "tape"
  ELSE IF "@testing-library/react" \in deps THEN "jest"
  ELSE IF deps \cap {"jasmine", "@types/jasmine"} # {} THEN "jasmine"
  ELSE ""

\* The framework scripts.test names ("" if none)
FromScript(testScript) ==
  IF ScriptIncludes(testScript, "jest") THEN "jest"
  ELSE IF ScriptIncludes(testScript, "vitest") THEN "vitest"
  ELSE IF ScriptIncludes(testScript, "mocha") THEN "mocha"
  ELSE IF ScriptIncludes(testScript, "karma") THEN "karma"
  ELSE IF ScriptIncludes(testScript, "tape") THEN "tape"
  ELSE IF ScriptIncludes(testScript, "jasmine") THEN "jasmine"
  ELSE IF ScriptIncludes(testScript, "grunt test")
          \/ ScriptIncludes(testScript, "gulp test") THEN "mocha"
  ELSE ""

\* The last stage: the test directories; a rejection of findFiles reaches
\* the outer catch block, which returns 'unknown'
FromLayout(repo) ==
  IF repo.testDir
    THEN IF repo.testFiles.found = "threw" THEN "unknown"
         ELSE IF repo.testFiles.found = "read"
           THEN FromContent(repo.testFiles.content)
         ELSE "mocha"
  ELSE "unknown"

\* Variant of detectTestFramework: the test script is looked at before the
\* dependencies.
detectTestFramework_scriptFirst(repo) ==
  IF repo.pkg = "unreadable" THEN "unknown"
  ELSE IF FromScript(repo.testScript) # "" THEN FromScript(repo.testScript)
  ELSE IF FromDeps(repo.deps) # "" THEN FromDeps(repo.deps)
  ELSE FromLayout(repo)

\* detectTestFramework(repoPath): the dependencies, then scripts.test, then
\* the test directories; package.json that cannot be read or parsed gives
\* 'unknown'
detectTestFramework(repo) ==
  IF repo.pkg = "unreadable" THEN "unknown"
  ELSE IF FromDeps(repo.deps) # "" THEN FromDeps(repo.deps)
  ELSE IF FromScript(repo.testScript) # "" THEN FromScript(repo.testScript)
  ELSE FromLayout(repo)

\* errorMessage.includes(needle) on the messages "boom" and
\* "syntax error in test file"
MessageIncludes(errorMessage, needle) ==
  errorMessage = "syntax error in test file" /\ needle = "syntax"

\* runTests, its outer catch block: compilationSuccess is false when the
\* message holds 'compilation', 'syntax' or 'parse'
TestsThrewResult(errorMessage) ==
  [success |-> FALSE, output |-> errorMessage, error |-> errorMessage,
   testsRun |-> 0, testsPassed |-> 0, testsFailed |-> 1,
   compilationSuccess |->
     ~(\/ MessageIncludes(errorMessage, "compilation")
       \/ MessageIncludes(errorMessage, "syntax")
       \/ MessageIncludes(errorMessage, "parse"))]

\* Raw results of each kind evaluateSinglePatch builds
RawSamples ==
  { PatchFailedResult("a"),
    ErrorResult("a", "boom"),
    TestedResult("a", ParsedTestResult("# tests 2\n# pass 2\n# fail 0")),
    TestedResult("a", NoTestFilesResult),
    TestedResult("a", TestsThrewResult("syntax error in test file")),
    TestedResult("a", TestsThrewResult("boom")) }

\* Longest list of raw results formatResults is applied to
MaxRaw == 4

FunctionCalls ==
  {[fn |-> "parseTestOutput", arg |-> text] : text \in OutputTexts}
    \cup {[fn |-> "classifyError", arg |-> error] : error \in ErrorMessages}
    \cup {[fn |-> "detectTestFramework", arg |-> repo] : repo \in Repositories}
    \cup {[fn |-> "formatResults", arg |-> rawResults] :
            rawResults \in SeqsUpTo(RawSamples, MaxRaw)}

InitFunctions ==
  /\ Constructed
  /\ datasetOk
  /\ maxParallel = DefaultParallel
  /\ NoCommand
  /\ NoProjects
  /\ NoLoop
  /\ fnIn \in FunctionCalls
  /\ fnOut = NoCall

Returns(value) ==
  /\ fnOut = NoCall
  /\ fnOut' = [fn |-> fnIn.fn, value |-> value]
  /\ UNCHANGED <<outsideFunctions, fnIn>>

Apply_parseTestOutput ==
  /\ fnIn.fn = "parseTestOutput"
  /\ Returns(parseTestOutput(fnIn.arg))

Apply_classifyError ==
  /\ fnIn.fn = "classifyError"
  /\ Returns(classifyError(fnIn.arg))

Apply_detectTestFramework ==
  /\ fnIn.fn = "detectTestFramework"
  /\ Returns(detectTestFramework(fnIn.arg))

Apply_formatResults ==
  /\ fnIn.fn = "formatResults"
  /\ Returns(formatResults(fnIn.arg))

NextFunctions ==
  \/ Apply_parseTestOutput
  \/ Apply_classifyError
  \/ Apply_detectTestFramework
  \/ Apply_formatResults

SpecFunctions == InitFunctions /\ [][NextFunctions]_vars

Returned(fn, arg) == fnIn = [fn |-> fn, arg |-> arg] /\ fnOut # NoCall

\* C21 as stated: an output holding "passing: P, failing: F" is parsed into
\* passed = P, failed = F and total = P + F.
C21_MochaStyleCounts ==
  \A P \in Counts, F \in Counts :
    Returned("parseTestOutput", MochaText(P, F)) =>
      fnOut.value = [testsRun |-> P + F, testsPassed |-> P, testsFailed |-> F]

\* The buckets of classifyError in the order of C22, each with its keywords.
BucketOrder ==
  << [type |-> "Timeout", keywords |-> {"timeout"}],
     [type |-> "Compilation Error", keywords |-> {"compilation", "compile"}],
     [type |-> "Test Failure", keywords |-> {"test", "assertion"}],
     [type |-> "Patch Application Failed", keywords |-> {"patch", "apply"}],
     [type |-> "Dependency Error", keywords |-> {"install", "dependency"}],
     [type |-> "Repository Error", keywords |-> {"git", "clone"}],
     [type |-> "Import Error", keywords |-> {"import", "module"}] >>

\* The keywords a message holds in any mix of upper and lower case.
Mentioned(error) ==
  UNION {KeywordsIn(IF error[k] \in DOMAIN LowerCased
                      THEN LowerCased[error[k]] ELSE error[k]) : k \in DOMAIN error}

\* The buckets with a keyword the message holds.
Hits(error) ==
  {b \in DOMAIN BucketOrder : BucketOrder[b].keywords \cap Mentioned(error) # {}}

\* C22: classifyError returns the first bucket in the order Timeout,
\* Compilation Error, Test Failure, Patch Application Failed, Dependency
\* Error, Repository Error, Import Error with a keyword that occurs in the
\* message in any case, and Other Error when no keyword occurs.
C22_FirstBucket ==
  (fnIn.fn = "classifyError" /\ fnOut # NoCall) =>
    LET error == fnIn.arg
    IN IF Hits(error) = {} THEN fnOut.value = "Other Error"
       ELSE \E b \in Hits(error) :
              /\ \A other \in Hits(error) : b <= other
              /\ fnOut.value = BucketOrder[b].type

\* C22 witness: an upper-case keyword of a later bucket comes before a
\* keyword of an earlier bucket in the message, and the earlier bucket is
\* returned.
C22_Witness ==
  /\ Returned("classifyError", <<"GIT", "TEST">>)
  /\ fnOut.value = "Test Failure"

\* The commands of cloneRepository, whose rejection leaves evaluateSinglePatch
\* through its catch block.
CloneCommands == {"clone repository", "checkout base commit"}

\* C23 as stated: the error of a result that reports a command's timeout is
\* classified into the Timeout bucket, whichever command timed out.
C23_TimeoutClassified ==
  \A k \in Slots, description \in CloneCommands :
    (pc[k] = "fulfilled" /\ val[k].error = CommandError("timeout", description)) =>
      classifyError(CommandErrorWords("timeout", description)) = "Timeout"

\* ------------------------------------------------------------------ runCommand
\* One call of runCommand: the executor of its promise spawns the child and
\* registers the data, close and error callbacks and the timer; an action is
\* one callback, or one segment of the async close handler.

\* The codes a child exits with by itself
ExitCodes == {0, 1}

\* What the child writes to a stream; each stream delivers at most one chunk.
Chunks == {"ok\n", "Error: boom\n"}

Pending == [state |-> "pending"]

Resolved(value) == [state |-> "resolved", value |-> value]

Rejected(error, text) == [state |-> "rejected", error |-> error, text |-> text]

\* Variant of Settle: the last call of resolve or reject decides.
Settle_lastWins(by, outcome) ==
  /\ promise' = outcome
  /\ settled' = Append(settled, by)

\* resolve(...) or reject(...) called by callback `by`: a promise that is
\* settled stays as it is.
Settle(by, outcome) ==
  /\ promise' = IF promise = Pending THEN outcome ELSE promise
  /\ settled' = Append(settled, by)

\* runCommand is called: spawn() starts the child, or fails with an errno
\* for which the 'error' event is emitted on the next tick (ENOENT, EACCES,
\* ...), or throws (any other errno), which rejects the promise at once.
runCommand_spawn ==
  /\ promise.state = "none"
  /\ \/ /\ child' = "running"
        /\ timeout' = "armed"
        /\ promise' = Pending
        /\ UNCHANGED settled
     \/ /\ child' = "failed"
        /\ timeout' = "armed"
        /\ promise' = Pending
        /\ UNCHANGED settled
     \/ /\ child' = "none"
        /\ timeout' = "none"
        /\ promise' = Rejected("SpawnError", "spawn E2BIG")
        /\ settled' = <<"spawn">>
  /\ UNCHANGED <<outsideCommand, code, stdout, stderr, closing, logFile>>

\* process.stdout.on('data') / process.stderr.on('data')
onData ==
  /\ child \in {"running", "exited", "killed"}
  /\ \E chunk \in Chunks :
       \/ stdout = "" /\ stdout' = stdout \o chunk /\ UNCHANGED stderr
       \/ stderr = "" /\ stderr' = stderr \o chunk /\ UNCHANGED stdout
  /\ UNCHANGED <<outsideCommand, child, code, timeout, promise, settled,
                 closing, logFile>>

\* The child exits by itself; its 'close' event is due once its streams are
\* closed.
childExits ==
  /\ child = "running"
  /\ child' = "exited"
  /\ \E c \in ExitCodes : code' = [exit |-> c]
  /\ UNCHANGED <<outsideCommand, stdout, stderr, timeout, promise, settled,
                 closing, logFile>>

\* The timer callback: process.kill('SIGKILL'), which ends a child that is
\* still running, then reject.  The 'error' event of a failed spawn is
\* emitted on the next tick, before any timer callback runs.
onTimeout ==
  /\ timeout = "armed"
  /\ child # "failed"
  /\ timeout' = "fired"
  /\ IF child = "running"
       THEN child' = "killed" /\ code' = [signal |-> "SIGKILL"]
       ELSE UNCHANGED <<child, code>>
  /\ Settle("timer", Rejected("Timeout", "timed out after 300000ms"))
  /\ UNCHANGED <<outsideCommand, stdout, stderr, closing, logFile>>

\* process.on('error'): clearTimeout and reject; the 'close' event of the
\* child that never started follows, with the errno as its code.
onError ==
  /\ child = "failed"
  /\ timeout' = "cleared"
  /\ Settle("error", Rejected("SpawnError", "failed to start: spawn ENOENT"))
  /\ child' = "exited"
  /\ code' = [exit |-> 0 - 2]
  /\ UNCHANGED <<outsideCommand, stdout, stderr, closing, logFile>>

\* process.on('close'), up to the await: clearTimeout, the log entry is
\* built and fs.appendFile is called.
onClose ==
  /\ child \in {"exited", "killed"}
  /\ closing = "none"
  /\ child' = "closed"
  /\ timeout' = IF timeout = "armed" THEN "cleared" ELSE timeout
  /\ closing' = "appending"
  /\ UNCHANGED <<outsideCommand, code, stdout, stderr, promise, settled,
                 logFile>>

\* `Exit code: ${code}\nSTDOUT:\n${stdout}\nSTDERR:\n${stderr}`
LogEntry == [code |-> code, stdout |-> stdout, stderr |-> stderr]

\* Variant of onClose_appended: the log entry is written for exit code 0 only.
onClose_appended_onSuccessOnly ==
  /\ closing = "appending"
  /\ IF code = [exit |-> 0]
       THEN /\ closing' = "done"
            /\ logFile' = Append(logFile, LogEntry)
            /\ Settle("close", Resolved(stdout))
       ELSE /\ closing' = "done"
            /\ UNCHANGED logFile
            /\ Settle("close", Rejected("NonZeroExit",
                                        IF stderr # "" THEN stderr ELSE stdout))
  /\ UNCHANGED <<outsideCommand, child, code, stdout, stderr, timeout>>

\* process.on('close'), after the await: fs.appendFile has written the entry
\* or has thrown, which the catch block only logs; then resolve or reject.
onClose_appended ==
  /\ closing = "appending"
  /\ \/ closing' = "done" /\ logFile' = Append(logFile, LogEntry)
     \/ closing' = "warned" /\ UNCHANGED logFile
  /\ IF code = [exit |-> 0]
       THEN Settle("close", Resolved(stdout))
       ELSE Settle("close", Rejected("NonZeroExit",
                                     IF stderr # "" THEN stderr ELSE stdout))
  /\ UNCHANGED <<outsideCommand, child, code, stdout, stderr, timeout>>

InitCommand ==
  /\ Init
  /\ datasetOk
  /\ maxParallel = DefaultParallel

NextCommand ==
  \/ runCommand_spawn
  \/ onData
  \/ childExits
  \/ onTimeout
  \/ onError
  \/ onClose
  \/ onClose_appended

SpecCommand == InitCommand /\ [][NextCommand]_vars

\* The 'close' handler has run to its end.
Closed == closing \in {"done", "warned"}

\* What the 'close' handler passes to resolve or reject.
CloseOutcome ==
  IF code = [exit |-> 0] THEN Resolved(stdout)
  ELSE Rejected("NonZeroExit", IF stderr # "" THEN stderr ELSE stdout)

\* C24: a runCommand call appends at most one log record; once the 'close'
\* handler has run, the log holds exactly the record of this exit (whatever
\* the exit code, and also after the timer has killed the child) unless
\* appendFile failed, and a failed appendFile leaves the outcome as it is
\* after a successful one.
C24_OneLogRecord ==
  /\ Len(logFile) <= 1
  /\ ~Closed => logFile = << >>
  /\ closing = "done" => logFile = <<LogEntry>>
  /\ closing = "warned" => logFile = << >>
  /\ Closed =>
       /\ promise.state \in {"resolved", "rejected"}
       /\ settled[1] = "close" => promise = CloseOutcome

\* C24 witness: the timer has killed the child, and the record of that exit
\* has been appended.
C24_Witness ==
  /\ settled = <<"timer", "close">>
  /\ code = [signal |-> "SIGKILL"]
  /\ closing = "done"
  /\ logFile = <<LogEntry>>
  /\ promise.error = "Timeout"

Decided == promise.state \in {"resolved", "rejected"}

\* The outcome C25 gives by the callback that decided first.
OutcomeBy(by) ==
  CASE by = "timer" -> promise.state = "rejected" /\ promise.error = "Timeout"
    [] by = "close" -> promise = CloseOutcome
    [] by \in {"error", "spawn"} ->
         promise.state = "rejected" /\ promise.error = "SpawnError"

OutcomeRight ==
  /\ Decided <=> settled # << >>
  /\ Decided => OutcomeBy(settled[1])
  /\ child = "closed" => timeout # "armed"
  /\ \A j \in DOMAIN settled, k \in DOMAIN settled :
       (j < k /\ settled[j] = "close") => settled[k] # "timer"

\* C25: the outcome, once decided, never changes, and it is the one of the
\* callback that came first: stdout for a close with code 0, NonZeroExit for
\* any other close, Timeout for the timer (a later close, even with code 0,
\* does not change it), SpawnError when the child could not be started; and
\* the timer is not armed once the child has closed.
C25_DecidedOnce ==
  [][(Decided => promise' = promise) /\ OutcomeRight']_vars

\* C25 witness: the timer fired first, the close event came later with code
\* 0, and the outcome is the Timeout error.
C25_Witness ==
  /\ settled = <<"timer", "close">>
  /\ code = [exit |-> 0]
  /\ promise.state = "rejected"
  /\ promise.error = "Timeout"

\* ------------------------------------------------------------------ calls
\* One engine serving evaluate() calls one after the other, while the
\* dataset file is rewritten between them.  The pipeline of a patch whose
\* instance is found goes as far as the mkdir of cloneRepository.

\* The submission for an instance the dataset lacks.
Absent == [instance_id |-> "c", model_patch |-> "diff --git m"]

\* The arguments of these evaluate() calls: each single submission, and
\* every list of up to MaxSubmitted submissions for the absent instance.
CallLists ==
  {<<p>> : p \in PatchSamples}
    \cup {[k \in 1..n |-> Absent] : n \in 0..MaxSubmitted}

\* evaluate(patches) is called after an earlier call has returned: the
\* locals of the earlier call are gone, this.instances and the directories
\* are as that call left them.
evaluate_next(ps) ==
  /\ evalPc = "returned"
  /\ patches' = ps
  /\ evalPc' = "loading"
  /\ i' = 0
  /\ results' = << >>
  /\ returned' = [total_instances |-> NaN]
  /\ pc' = [k \in Slots |-> "idle"]
  /\ val' = [k \in Slots |-> NoValue]
  /\ loc' = [k \in Slots |-> NoLocals]
  /\ made' = [k \in Slots |-> FALSE]
  /\ cleaned' = [k \in Slots |-> FALSE]
  /\ spawned' = [k \in Slots |-> {}]
  /\ completed' = << >>
  /\ UNCHANGED <<outsideEngine, datasetOk, maxParallel, instances, dirs>>

\* Between two calls the dataset file is replaced by one with other records.
DatasetRewritten ==
  /\ evalPc = "returned"
  /\ \E ids \in SUBSET DOMAIN Dataset :
       /\ ids # datasetFile
       /\ datasetFile' = ids
  /\ UNCHANGED <<engine, manager, functions, runCommand, orchestration,
                 development>>

InitCalls ==
  /\ Init
  /\ datasetOk

NextCalls ==
  \/ \E ps \in CallLists : evaluate(ps)
  \/ \E ps \in CallLists : evaluate_next(ps)
  \/ DatasetRewritten
  \/ LoadInstances
  \/ BatchDone
  \/ \E k \in Slots :
       \/ cloneRepository_rm(k)
       \/ cloneRepository_mkdir(k)
       \/ evaluateSinglePatch_finally(k)

SpecCalls == InitCalls /\ [][NextCalls]_vars

\* Call k of the current evaluate() call has been made.
Started(k) == k \in 1..Len(patches) /\ pc[k] # "idle"

NotFound(k) ==
  /\ pc[k] = "rejected"
  /\ val[k] = [reason |-> "Instance " \o patches[k].instance_id \o " not found"]

\* C26 as stated: while an evaluate() call runs (the file is as the call
\* read it), a patch for an instance_id that the dataset lacks has been
\* rejected with 'Instance ... not found', whatever earlier calls loaded.
C26_LoadedFresh ==
  evalPc = "awaiting" =>
    \A k \in Slots :
      (Started(k) /\ patches[k].instance_id \notin datasetFile) => NotFound(k)

\* ceil(n / p)
Ceil(n, p) == (n + p - 1) \div p

\* While batch b of the call runs: the loop index stands at its first patch,
\* the calls made are those of batches 1..b, in submission order without a
\* gap, and those of the batches before b have settled.
RunningBatch(b) ==
  /\ i = maxParallel * (b - 1)
  /\ \A k \in 1..Len(patches) :
       /\ Started(k) <=> k <= maxParallel * b
       /\ k <= maxParallel * (b - 1) => Settled(k)

Partitioned ==
  /\ evalPc = "awaiting" =>
       \E b \in 1..Ceil(Len(patches), maxParallel) : RunningBatch(b)
  /\ evalPc = "returned" =>
       /\ i = maxParallel * Ceil(Len(patches), maxParallel)
       /\ \A k \in 1..Len(patches) : Settled(k)
  /\ \A k \in Slots : k > Len(patches) => pc[k] = "idle"

\* C27: evaluate() runs the patches in consecutive batches of maxParallel
\* (config.parallel_instances) patches in submission order, one batch after
\* the other, the last one holding the remainder: ceil(n / maxParallel)
\* batches in all, and none for an empty list.
C27_BatchPartition ==
  [][/\ (evalPc = "awaiting" /\ i' # i) => i' = i + maxParallel
     /\ Partitioned']_vars

\* C27 witness: of 5 patches with maxParallel = 2 the third batch runs, and
\* it holds the fifth patch only.
C27_Witness ==
  /\ Len(patches) = 5
  /\ maxParallel = 2
  /\ evalPc = "awaiting"
  /\ RunningBatch(3)
  /\ {k \in Slots : Started(k) /\ k > i} = {5}

\* parseTestOutput returned these counts for this output text.
Parsed(text, total, passed, failed) ==
  Returned("parseTestOutput", text) =>
    fnOut.value = [testsRun |-> total, testsPassed |-> passed,
                   testsFailed |-> failed]

\* C30: the first pattern to match in the order jest/vitest, mocha, TAP,
\* generic decides the counts, and its groups are assigned by their meaning:
\* "Tests: F failed, P passed, T total" gives failed F, passed P, total T;
\* "# tests T # pass P # fail F" and "T tests, P passed, F failed" give
\* total T, passed P, failed F; of an output with a generic and a TAP
\* summary the TAP one decides.
C30_GroupsByMeaning ==
  \A T \in Counts, P \in Counts, F \in Counts :
    /\ Parsed(JestText(F, P, T), T, P, F)
    /\ Parsed(TapText(T, P, F), T, P, F)
    /\ Parsed(GenericText(T, P, F), T, P, F)
    /\ Parsed(MixedText(T, P, F), F, T, P)

\* C31: the glyph and keyword counts are a last resort: whenever one of the
\* four count patterns matches the output, the counts returned are those the
\* pattern captured, a captured total of 0 included.  (The passed count is
\* the second group of the jest/vitest, TAP and generic patterns alike; the
\* TAP and generic patterns capture total, passed, failed in this order.)
C31_GlyphsLastResort ==
  (fnIn.fn = "parseTestOutput" /\ fnOut # NoCall) =>
    LET s == Scan(fnIn.arg)
    IN /\ s.pattern \in {1, 3, 4} => fnOut.value.testsPassed = s.m[2]
       /\ s.pattern \in {3, 4} =>
            fnOut.value = [testsRun |-> s.m[1], testsPassed |-> s.m[2],
                           testsFailed |-> s.m[3]]

\* npm install of call k has just ended in this way ("ok" or "failed").
InstallEnded(k, how) == loc[k].commands = <<"npm install: " \o how>>

\* C32: a failure of the install command (non-zero exit, timeout, spawn
\* failure) is swallowed: once npm install has ended, in whatever way, the
\* call stands at runTests' own look at package.json; a call that spawned a
\* command of runTests ends with a result built from what runTests returned;
\* and no result carries the error of the install command.
C32_InstallSwallowed ==
  \A k \in Slots :
    /\ (InstallEnded(k, "ok") \/ InstallEnded(k, "failed")) => pc[k] = "pkgAccess"
    /\ (pc[k] \in {"finally", "fulfilled"} /\ "runTests" \in spawned[k]) =>
         /\ val[k].patch_applied
         /\ "evaluation_error" \notin DOMAIN val[k].metadata
    /\ \A kind \in CommandFailures :
         "error" \in DOMAIN val[k] =>
           val[k].error # CommandError(kind, "install dependencies")

\* C32 witness: npm install of a call has failed, and the call stands at the
\* fs.access of runTests.
C32_Witness ==
  \E k \in Slots : InstallEnded(k, "failed") /\ pc[k] = "pkgAccess"

\* The call has run this command.
Ran(c, command) == \E n \in DOMAIN call[c].commands : call[c].commands[n] = command

\* C33: generateDiff leaves nothing staged: a call that returns after git
\* add -A staged the changes (git diff --cached was then run) has run git
\* reset as well, a failed git diff --cached included; and for a path that
\* is missing (no command run) or that is no git repository (git status
\* failed) it returns '' without git add -A.
C33_DiffUnstages ==
  \A c \in CheckoutUsers :
    (call[c].op = "generateDiff" /\ call[c].pc = "returned") =>
      /\ Ran(c, "git diff --cached") => Ran(c, "git reset")
      /\ call[c].commands \in {<< >>, <<"git status">>} =>
           call[c].ret = [diff |-> ""]

\* The stages of framework detection in their order: the packages, then
\* the words of the test script, each with the framework it decides.
DependencyOrder ==
  << [packages |-> {"jest", "@types/jest"}, framework |-> "jest"],
     [packages |-> {"vitest"}, framework |-> "vitest"],
     [packages |-> {"mocha", "@types/mocha", "chai"}, framework |-> "mocha"],
     [packages |-> {"karma", "karma-jasmine", "karma-chrome-launcher"},
      framework |-> "karma"],
     [packages |-> {"tape", "tape-catch"}, framework |-> "tape"],
     [packages |-> {"@testing-library/react"}, framework |-> "jest"],
     [packages |-> {"jasmine", "@types/jasmine"}, framework |-> "jasmine"] >>

ScriptOrder ==
  << [word |-> "jest", framework |-> "jest"],
     [word |-> "vitest", framework |-> "vitest"],
     [word |-> "mocha", framework |-> "mocha"],
     [word |-> "karma", framework |-> "karma"],
     [word |-> "tape", framework |-> "tape"],
     [word |-> "jasmine", framework |-> "jasmine"],
     [word |-> "grunt test", framework |-> "mocha"],
     [word |-> "gulp test", framework |-> "mocha"] >>

DepHits(repo) ==
  {n \in DOMAIN DependencyOrder : DependencyOrder[n].packages \cap repo.deps # {}}

ScriptHits(repo) ==
  {n \in DOMAIN ScriptOrder : ScriptIncludes(repo.testScript, ScriptOrder[n].word)}

First(hits) == CHOOSE n \in hits : \A o \in hits : n <= o

\* What the first two stages decide for a package.json that was read: the
\* first dependency entry that matches whatever the script and the
\* directories are, else the first script word that matches.
StagesInOrder(repo, framework) ==
  /\ DepHits(repo) # {} =>
       framework = DependencyOrder[First(DepHits(repo))].framework
  /\ (DepHits(repo) = {} /\ ScriptHits(repo) # {}) =>
       framework = ScriptOrder[First(ScriptHits(repo))].framework
  /\ (DepHits(repo) = {} /\ ScriptHits(repo) = {} /\ ~repo.testDir) =>
       framework = "unknown"

Undecided(repo) == DepHits(repo) = {} /\ ScriptHits(repo) = {} /\ repo.testDir

Detected == fnIn.fn = "detectTestFramework" /\ fnOut # NoCall

\* C34 as stated: 'unknown' is returned only when nothing matches or
\* package.json cannot be read, so never for a repository with a test or
\* spec directory.
C34_Original ==
  Detected =>
    IF fnIn.arg.pkg = "unreadable" THEN fnOut.value = "unknown"
    ELSE /\ StagesInOrder(fnIn.arg, fnOut.value)
         /\ Undecided(fnIn.arg) => fnOut.value \in {"jest", "mocha", "tape"}

\* C34, amended: detection is ordered and the first match wins: dependency,
\* then test script, then the test and spec directories; 'unknown' is
\* returned when nothing matches, when package.json cannot be read, and
\* when the search for test files under an existing test or spec directory
\* fails.
C34_DetectionOrder ==
  Detected =>
    IF fnIn.arg.pkg = "unreadable" THEN fnOut.value = "unknown"
    ELSE /\ StagesInOrder(fnIn.arg, fnOut.value)
         /\ Undecided(fnIn.arg) =>
              IF fnIn.arg.testFiles.found = "threw"
                THEN fnOut.value = "unknown"
                ELSE fnOut.value \in {"jest", "mocha", "tape"}

\* C34 witness: chai is a dependency and the test script runs jest; the
\* framework returned is mocha.
C34_Witness ==
  /\ Detected
  /\ fnIn.arg.pkg = "read"
  /\ fnIn.arg.deps = {"chai"}
  /\ fnIn.arg.testScript = "jest --ci"
  /\ fnOut.value = "mocha"

\* A cloneRepository call that is between its first await and its return
Cloning(c) ==
  call[c].op = "cloneRepository" /\ call[c].pc \in {"rm", "clone", "checkout", "branch", "install"}

\* C35: calls of cloneRepository for one instance_id are not serialized. A
\* call that starts for an id the table does not hold tracks nothing and goes
\* on to force-remove its path, whatever other calls are cloning; a call in
\* progress leaves the table alone until its last step, so a second call
\* that starts meanwhile finds the id untracked; and the step that finishes a
\* call writes its own path over whatever entry the id had.
C35_NoSerialization ==
  [][\A c \in Callers :
       /\ (StartsClone(c) /\ ~MapHas(call'[c].id)) =>
            /\ call'[c].pc = "rm"
            /\ activeRepos' = activeRepos
       /\ (Cloning(c) /\ call'[c] # call[c] /\ call'[c].pc # "returned") =>
            activeRepos' = activeRepos
       /\ (Cloning(c) /\ call'[c] # call[c] /\ call'[c].pc = "returned") =>
            /\ call[c].pc = "install"
            /\ activeRepos' = MapSet(call[c].id, call[c].path)
            /\ call'[c].ret = [path |-> call[c].path]]_vars

\* The second call has force-removed the directory the first one cloned and
\* is cloning into the same path while the first is still in progress
C35_Witness ==
  /\ Cloning(1) /\ Cloning(2)
  /\ call[1].id = "a" /\ call[2].id = "a" /\ call[1].path = call[2].path
  /\ call[1].pc = "checkout" /\ call[2].pc = "clone"
  /\ call[1].path \notin disk
  /\ ~MapHas("a")

\* The test run of a raw result flagged a compilation failure
CompilationFlagged(raw) ==
  /\ "compilation_success" \in DOMAIN raw.metadata
  /\ ~raw.metadata.compilation_success

C40_DerivedCounts ==
  (fnIn.fn = "formatResults" /\ fnOut # NoCall) =>
    LET r == fnOut.value
        groups == r.summary.success_by_complexity
    IN /\ r.test_pass_rate = r.resolution_rate
       /\ r.exact_matches = r.resolved_instances
       /\ \A j \in DOMAIN r.per_instance_results :
            r.per_instance_results[j].tests_passed
              = r.per_instance_results[j].resolved
       /\ groups.low + groups.medium + groups.high = r.resolved_instances
       /\ r.resolved_instances =
            Cardinality({j \in DOMAIN fnIn.arg : fnIn.arg[j].resolved})

\* Four results were formatted, of which the first, third and fourth were
\* resolved: the fourth is counted in the bucket of the first
C40_Witness ==
  /\ fnIn.fn = "formatResults" /\ fnOut # NoCall
  /\ Len(fnIn.arg) = 4
  /\ fnIn.arg[1].resolved /\ ~fnIn.arg[2].resolved
  /\ fnIn.arg[3].resolved /\ fnIn.arg[4].resolved
  /\ fnOut.value.summary.success_by_complexity = [low |-> 2, medium |-> 0, high |-> 1]
  /\ fnOut.value.resolved_instances = 3

\* C39: the TestResults that runTests takes from the output when
\* test-results.json cannot be read are consistent, total = passed + failed,
\* whatever the pass count and the fail count matched and whether or not
\* stderr holds an error indicator.
C39_FallbackConsistent ==
  \A c \in CheckoutUsers :
    (call[c].op = "runTests" /\ call[c].pc = "returned" /\ call[c].parsed = "fallback") =>
      call[c].ret.total = call[c].ret.passed + call[c].ret.failed

\* The working directory of the attempt for patch k: workDir/repos/<instance_id>
repoWorkDir(k) == patches[k].instance_id

\* The attempt for patch k has made its working directory and has not yet
\* run the cleanup of its finally block.
Using(k) == k \in 1..Len(patches) /\ made[k] /\ ~cleaned[k] /\ InFlight(k)

\* C29: a working directory belongs to one attempt for the whole attempt:
\* whatever the patch list, no two attempts use the same directory at the
\* same time, and the directory an attempt uses exists until its own
\* cleanup, no other attempt's force-remove or cleanup having deleted it.
C29_DirectoryOwned ==
  \A k \in Slots :
    Using(k) =>
      /\ repoWorkDir(k) \in dirs
      /\ \A j \in Slots \ {k} : Using(j) => repoWorkDir(j) # repoWorkDir(k)

\* ------------------------------------------------------------------ OrchestrationManager
\* Projects, their creation workflow, cancelProject() and stop().  An action
\* is what runs between two awaits: every await of the code is a point where
\* the continuation of another call may run.

MaxProjects == 2

CancelledError == "Cancelled by system shutdown."

\* The phases the creation workflow asks for, in order:
\* executeResearchPhase, executeMVPPlanningPhase, executeMVPDevelopmentPhase
\* and, from runDevelopmentLoop, the phase after the checks passed
Phases == <<"researching", "mvp_planning", "mvp_development", "mvp_testing">>

\* The error the catch block of a phase hands to updateProjectStatus
PhaseError(n) ==
  IF n = 1 THEN "Research failed: boom"
  ELSE IF n = 2 THEN "MVP planning failed: boom"
  ELSE "boom"

\* The message of the Error transitionPhase() throws
InvalidTransition(from, to) ==
  "Invalid phase transition from " \o from \o " to " \o to

\* workflowStateMachine.isValidTransition(from, to): the class lives in
\* ./workflow-state-machine, outside the files modelled here.  The workflow
\* asks for its phases in their order, which is admitted; for a step out of
\* 'failed' either answer is possible.
isValidTransition(from, to) == IF from = "failed" THEN BOOLEAN ELSE {TRUE}

\* getActiveProjects(): the projects neither completed nor failed
Active(project) == project.status \notin {"completed", "failed"}

getActiveProjects == {id \in DOMAIN projects : Active(projects[id])}

\* transitionPhase(), which runs without an await inside
\* updateProjectStatus(): it sets the status, or throws and leaves it
transitionPhase(project, newPhase, isValid) ==
  IF isValid \/ newPhase = "failed"
  THEN [project EXCEPT !.status = newPhase, !.wf.threw = ""]
  ELSE [project EXCEPT !.wf.threw = InvalidTransition(project.status, newPhase)]

\* updateProjectStatus() after its await of transitionPhase(): the catch
\* block forces 'failed' with the transition's message; a given error
\* replaces project.error
updated(project, error) ==
  LET forced == IF project.wf.threw # ""
                THEN [project EXCEPT !.status = "failed",
                                     !.error = project.wf.threw]
                ELSE project
  IN IF error # "" THEN [forced EXCEPT !.error = error] ELSE forced

\* createPluginProject(): the project is stored as 'idle' and the workflow
\* is started without being awaited; it runs up to its first await, in
\* updateProjectStatus(id, 'researching')
createPluginProject ==
  /\ Len(projects) < MaxProjects
  /\ \E isValid \in isValidTransition("idle", Phases[1]) :
       LET project == [status |-> "idle", error |-> "", cancelledBy |-> "",
                       wf |-> [at |-> "updating", phase |-> 1, threw |-> ""]]
       IN projects' = Append(projects,
                             transitionPhase(project, Phases[1], isValid))
  /\ UNCHANGED <<outsideOrchestration, stopping>>

\* updateProjectStatus(id, phase) resumes and returns to the phase, which
\* goes on with its work; after 'mvp_testing' the development loop ends
\* and with it the workflow
workflow_updated(id) ==
  /\ id \in DOMAIN projects
  /\ projects[id].wf.at = "updating"
  /\ LET project == updated(projects[id], "")
     IN projects' =
          [projects EXCEPT ![id] =
             [project EXCEPT !.wf.at = IF project.wf.phase = Len(Phases)
                                       THEN "done" ELSE "working"]]
  /\ UNCHANGED <<outsideOrchestration, stopping>>

\* The work of a phase succeeded: the next phase is asked for
workflow_nextPhase(id) ==
  /\ id \in DOMAIN projects
  /\ projects[id].wf.at = "working"
  /\ LET n == projects[id].wf.phase + 1
     IN \E isValid \in isValidTransition(projects[id].status, Phases[n]) :
          projects' =
            [projects EXCEPT ![id] =
               [transitionPhase(projects[id], Phases[n], isValid)
                  EXCEPT !.wf.at = "updating", !.wf.phase = n]]
  /\ UNCHANGED <<outsideOrchestration, stopping>>

\* The work of a phase threw: its catch block calls
\* updateProjectStatus(id, 'failed', message)
workflow_phaseFailed(id) ==
  /\ id \in DOMAIN projects
  /\ projects[id].wf.at = "working"
  /\ projects' =
       [projects EXCEPT ![id] =
          [transitionPhase(projects[id], "failed", FALSE)
             EXCEPT !.wf.at = "failing"]]
  /\ UNCHANGED <<outsideOrchestration, stopping>>

\* That call resumes, the phase rethrows, and the catch block of
\* createPluginProject calls updateProjectStatus(id, 'failed', errorMessage)
workflow_rethrown(id) ==
  /\ id \in DOMAIN projects
  /\ projects[id].wf.at = "failing"
  /\ projects' =
       [projects EXCEPT ![id] =
          [transitionPhase(updated(projects[id],
                                   PhaseError(projects[id].wf.phase)),
                           "failed", FALSE)
             EXCEPT !.wf.at = "rethrown"]]
  /\ UNCHANGED <<outsideOrchestration, stopping>>

\* The last updateProjectStatus() call resumes; the workflow is over
workflow_failed(id) ==
  /\ id \in DOMAIN projects
  /\ projects[id].wf.at = "rethrown"
  /\ projects' =
       [projects EXCEPT ![id] =
          [updated(projects[id], "boom") EXCEPT !.wf.at = "done"]]
  /\ UNCHANGED <<outsideOrchestration, stopping>>

\* The body of cancelProject(), which holds no await
cancelled(project, by) ==
  [project EXCEPT !.status = "failed",
                  !.error = CancelledError,
                  !.cancelledBy = by]

\* cancelProject(id), called by a client for an existing project
cancelProject(id) ==
  /\ id \in DOMAIN projects
  /\ projects' = [projects EXCEPT ![id] = cancelled(projects[id], "client")]
  /\ UNCHANGED <<outsideOrchestration, stopping>>

\* The loop of stop() from the project at `from` on, up to its next await
\* or its return.  The iterator of the Map is live: it reaches the projects
\* created while stop() was waiting.
stop_loop(from) ==
  LET active == {id \in from..Len(projects) : Active(projects[id])}
  IN IF active = {}
     THEN /\ stopping' = [pc |-> "returned", cursor |-> Len(projects) + 1]
          /\ UNCHANGED projects
     ELSE LET id == CHOOSE a \in active : \A b \in active : a <= b
          IN /\ projects' =
                  [projects EXCEPT ![id] = cancelled(projects[id], "stop")]
             /\ stopping' = [pc |-> "awaiting", cursor |-> id + 1]

\* stop() is called
stop ==
  /\ stopping.pc = "idle"
  /\ stop_loop(1)
  /\ UNCHANGED outsideOrchestration

\* stop() resumes after `await this.cancelProject(project.id)`
stop_next ==
  /\ stopping.pc = "awaiting"
  /\ stop_loop(stopping.cursor)
  /\ UNCHANGED outsideOrchestration

InitProjects ==
  /\ Init
  /\ datasetOk
  /\ maxParallel = DefaultParallel

NextProjects ==
  \/ createPluginProject
  \/ \E id \in 1..MaxProjects : workflow_updated(id)
  \/ \E id \in 1..MaxProjects : workflow_nextPhase(id)
  \/ \E id \in 1..MaxProjects : workflow_phaseFailed(id)
  \/ \E id \in 1..MaxProjects : workflow_rethrown(id)
  \/ \E id \in 1..MaxProjects : workflow_failed(id)
  \/ \E id \in 1..MaxProjects : cancelProject(id)
  \/ stop
  \/ stop_next

SpecProjects == InitProjects /\ [][NextProjects]_vars

\* A project that reads as cancelled
CancelledThisWay(project) ==
  /\ project.status = "failed"
  /\ project.error = CancelledError

\* C28: when cancelProject(id) returns for an existing project, its status
\* is 'failed' and its error is 'Cancelled by system shutdown.'; when stop()
\* returns, every project it cancelled reads that way and
\* getActiveProjects() is empty.
C28_StopCancelsAll ==
  [][/\ \A id \in DOMAIN projects :
          cancelProject(id) => CancelledThisWay(projects'[id])
     /\ (stopping.pc # "returned" /\ stopping'.pc = "returned") =>
          /\ getActiveProjects' = {}
          /\ \A id \in DOMAIN projects' :
               projects'[id].cancelledBy = "stop" =>
                 CancelledThisWay(projects'[id])]_vars

\* ------------------------------------------------------------------ runDevelopmentLoop
\* runDevelopmentLoop(project, stage) of one project, with the calls a client
\* may make while the loop is at an await: setInfiniteMode and cancelProject.

\* project.maxIterations is 5 as created; the tests set it
MaxIterations == 3

\* With infiniteMode on the loop is followed up to this iteration
MaxRounds == 4

Stages == {"mvp", "full"}

developmentPhase(stage) == stage \o "_development"

\* const nextPhase = stage === 'mvp' ? 'mvp_testing' : 'full_testing'
nextPhase(stage) == IF stage = "mvp" THEN "mvp_testing" ELSE "full_testing"

\* What generatePluginCode throws, and runCommand under runCheck
GenerationError == "AI code generation requires an ANTHROPIC_API_KEY"

CheckError == "Project local path is not set."

\* The Error thrown after the loop
FailedToComplete(stage, maxIterations) ==
  "Failed to complete " \o stage \o " development after "
    \o ToString(maxIterations) \o " iterations."

\* A loop condition that admits one iteration more
whileCondition_oneMore(l) ==
  ~l.success /\ (l.infiniteMode \/ l.currentIteration <= l.maxIterations + 1)

\* while (!success && (project.infiniteMode ||
\*                     project.currentIteration <= project.maxIterations))
whileCondition(l) ==
  ~l.success /\ (l.infiniteMode \/ l.currentIteration <= l.maxIterations)

\* The loop condition is evaluated: generatePluginCode is called and
\* awaited, or the loop is left, with an Error when success is false
loopTop(l) ==
  IF whileCondition(l)
    THEN [l EXCEPT !.pc = "generate", !.generated = @ + 1]
  ELSE IF ~l.success
    THEN [l EXCEPT !.pc = "threw",
                   !.ret = FailedToComplete(l.stage, l.maxIterations)]
  ELSE [l EXCEPT !.pc = "returned"]

\* catch (error): updateProjectStatus(project.id, 'failed', errorMessage)
\* is called and awaited
loopCatch(l, errorMessage) ==
  [l EXCEPT !.project = transitionPhase(@, "failed", FALSE),
            !.pc = "failing", !.ret = errorMessage]

\* runDevelopmentLoop(project, stage) is called for a project in its
\* development phase
runDevelopmentLoop(stage, maxIterations) ==
  /\ loop.pc = "idle"
  /\ loop' = loopTop([loop EXCEPT !.project.status = developmentPhase(stage),
                                  !.stage = stage,
                                  !.maxIterations = maxIterations,
                                  !.success = FALSE,
                                  !.currentIteration = 1])
  /\ UNCHANGED outsideDevelopment

\* generatePluginCode returns, and runAllChecks is called, or it throws
loop_generated ==
  /\ loop.pc = "generate"
  /\ \/ loop' = [loop EXCEPT !.pc = "checks"]
     \/ loop' = loopCatch(loop, GenerationError)
  /\ UNCHANGED outsideDevelopment

\* runAllChecks returns: every check succeeded and
\* updateProjectStatus(project.id, nextPhase) is called, or one failed and
\* updateErrorAnalysis is awaited; or a check throws
loop_checked ==
  /\ loop.pc = "checks"
  /\ \/ \E isValid \in isValidTransition(loop.project.status, nextPhase(loop.stage)) :
          loop' = [loop EXCEPT
                     !.success = TRUE,
                     !.project = transitionPhase(@, nextPhase(loop.stage), isValid),
                     !.pc = "moving"]
     \/ loop' = [loop EXCEPT !.pc = "analysing"]
     \/ loop' = loopCatch(loop, CheckError)
  /\ UNCHANGED outsideDevelopment

\* updateProjectStatus(project.id, nextPhase) resumes; the loop condition is
\* evaluated
loop_moved ==
  /\ loop.pc = "moving"
  /\ loop' = loopTop([loop EXCEPT !.project = updated(@, "")])
  /\ UNCHANGED outsideDevelopment

\* The failed results are analysed: project.currentIteration++ and the
\* delay of 2 s is awaited
loop_analysed ==
  /\ loop.pc = "analysing"
  /\ loop' = [loop EXCEPT !.currentIteration = @ + 1, !.pc = "delay"]
  /\ UNCHANGED outsideDevelopment

\* The delay is over; the loop condition is evaluated
loop_delayed ==
  /\ loop.pc = "delay"
  /\ loop.infiniteMode => loop.currentIteration <= MaxRounds
  /\ loop' = loopTop(loop)
  /\ UNCHANGED outsideDevelopment

\* updateProjectStatus(project.id, 'failed', errorMessage) resumes, and the
\* catch block rethrows
loop_failed ==
  /\ loop.pc = "failing"
  /\ loop' = [loop EXCEPT !.project = updated(@, loop.ret), !.pc = "threw"]
  /\ UNCHANGED outsideDevelopment

\* setInfiniteMode(projectId, enabled), called by a client
setInfiniteMode(enabled) ==
  /\ loop' = [loop EXCEPT !.infiniteMode = enabled,
                          !.wasInfinite = @ \/ enabled]
  /\ UNCHANGED outsideDevelopment

\* cancelProject(id), called by a client while the loop is running or over
loop_cancelProject ==
  /\ loop.pc # "idle"
  /\ loop.project.cancelledBy = ""
  /\ loop' = [loop EXCEPT !.project = cancelled(@, "client")]
  /\ UNCHANGED outsideDevelopment

InitLoop ==
  /\ Init
  /\ datasetOk
  /\ maxParallel = DefaultParallel

NextLoop ==
  \/ \E stage \in Stages, maxIterations \in 1..MaxIterations :
       runDevelopmentLoop(stage, maxIterations)
  \/ loop_generated
  \/ loop_checked
  \/ loop_moved
  \/ loop_analysed
  \/ loop_delayed
  \/ loop_failed
  \/ \E enabled \in BOOLEAN : setInfiniteMode(enabled)
  \/ loop_cancelProject

SpecLoop == InitLoop /\ [][NextLoop]_vars

\* Where the loop stands inside an iteration, counted down to its end
Rank(at) ==
  CASE at = "delay" -> 6
    [] at = "generate" -> 5
    [] at = "checks" -> 4
    [] at = "analysing" -> 3
    [] at \in {"moving", "failing"} -> 1
    [] OTHER -> 0

\* What every step of a loop with infiniteMode off makes smaller
Measure(l) == 10 * (l.maxIterations + 1 - l.currentIteration) + Rank(l.pc)

\* The loop ended with the Error thrown after maxIterations failed iterations
Exhausted(l) ==
  /\ l.pc = "threw"
  /\ l.ret = FailedToComplete(l.stage, l.maxIterations)
  /\ l.generated = l.maxIterations
  /\ l.currentIteration = l.maxIterations + 1

\* C36 as stated: with infiniteMode off the loop makes at most maxIterations
\* iterations, a loop that returns has moved the project to the testing
\* phase, and a loop that fails has made maxIterations failed iterations.
C36_Original ==
  ~loop.wasInfinite =>
    /\ loop.generated <= loop.maxIterations
    /\ loop.pc = "returned" => loop.project.status = nextPhase(loop.stage)
    /\ loop.pc = "threw" => Exhausted(loop)

\* C36: with infiniteMode off the development loop terminates (every step
\* of it lowers a measure that is never negative); it calls generatePluginCode
\* at most maxIterations times and never after the checks succeeded; it
\* returns only after such a success, the move to the testing phase having
\* been asked for and made unless the project was cancelled meanwhile; and
\* it fails either after maxIterations failed iterations or in the
\* iteration in which generation or a check threw, the project being marked
\* failed with the thrown message.
C36_LoopTerminates ==
  [][~loop'.wasInfinite =>
       /\ loop'.generated <= loop'.maxIterations
       /\ Measure(loop') >= 0
       /\ (loop.pc # "idle" /\ loop'.pc # loop.pc) => Measure(loop') < Measure(loop)
       /\ loop.success => loop'.generated = loop.generated
       /\ (loop.pc # "returned" /\ loop'.pc = "returned") =>
            /\ loop.pc = "moving" /\ loop'.success
            /\ \/ loop'.project.status = nextPhase(loop.stage)
               \/ loop'.project.cancelledBy # ""
       /\ (loop.pc # "threw" /\ loop'.pc = "threw") =>
            /\ ~loop'.success
            /\ \/ Exhausted(loop')
               \/ /\ loop.pc = "failing"
                  /\ loop'.ret \in {GenerationError, CheckError}
                  /\ loop'.generated <= loop'.maxIterations
                  /\ loop'.project.status = "failed"
                  /\ loop'.project.error = loop'.ret]_vars

\* Every iteration of a loop of several failed, and the loop threw
C36_Witness ==
  /\ ~loop.wasInfinite
  /\ loop.maxIterations >= 2
  /\ Exhausted(loop)

\* C37: once cancelProject(id) was called, the workflow of the project
\* starts no further development iteration and no further phase: no
\* generatePluginCode call, no runAllChecks call and no request for the
\* testing phase is made for a cancelled project.
C37_CancelledWorkStops ==
  [][loop.project.cancelledBy # "" =>
       /\ loop'.generated = loop.generated
       /\ ~(loop.pc # "checks" /\ loop'.pc = "checks")
       /\ ~(loop.pc # "moving" /\ loop'.pc = "moving")]_vars

====
